---------------------------- MODULE Spec2Model ----------------------------
(***************************************************************************)
(* State-machine model of src/api_server.py: the in-memory rate limiter,   *)
(* the admission check, the job table of the async download path with its  *)
(* sweeps, timers and post-fetch cleanup threads, and the sync download    *)
(* path.                                                                   *)
(*                                                                         *)
(* Granularity.  One action is one straight-line run of a thread between   *)
(* two points where it blocks or ends: an HTTP handler up to its blocking  *)
(* call into yt-dlp, the return of that call up to the response, a timer   *)
(* or sleeping thread waking up.  Threads interleave at those points.      *)
(*                                                                         *)
(* Time.  time.time() is not stored; every stored timestamp is kept as its *)
(* age (now - timestamp, in seconds), and every pending sleep or timer as  *)
(* the time it still has to wait.  Tick(d) lets d seconds pass.  An age is *)
(* kept exactly up to the largest threshold the code compares it with and  *)
(* saturates just above it, which no comparison in the code can tell from  *)
(* the exact value.                                                        *)
(***************************************************************************)
EXTENDS Integers, Sequences, FiniteSets, TLC

\* ------------------------------------------------------------------ bounds
\* Async submissions over one run (uuid4 job ids are never reused).
MaxJobs == 1
\* Client addresses whose rate-limit windows are tracked.
NClients == 1
\* Post-fetch cleanup threads that may be pending for one job at once.
MaxFetch == 2
\* Longest request run the history variable `run` counts.
MaxRun == 7

\* ------------------------------------------------------- program constants
MAX_CONCURRENT_DOWNLOADS == 2
DEFAULT_MAX_REQUESTS == 10
DEFAULT_WINDOW == 300
ULTRAFAST_MAX_REQUESTS == 5
ULTRAFAST_WINDOW == 300
ASYNC_MAX_REQUESTS == 3
ASYNC_WINDOW == 600
\* cleanup_old_downloads: age limits of a forced and of a normal sweep
FORCE_AGE == 300
MAX_AGE == 1800
\* threading.Timer(1800, cleanup_download) started on completion
TIMER_DELAY == 1800
\* delayed_cleanup: time.sleep(60) after a file has been served
FETCH_CLEANUP_DELAY == 60
\* check_download_status: the lifetime it reports, max(0, 1800 - age)
STATUS_LIFETIME == 1800
\* periodic_cleanup: time.sleep(600) between sweeps
SWEEP_PERIOD == 600
\* check_memory_usage: percent of memory above which the request is refused
MEM_LIMIT == 80
\* check_system_resources: free space on /tmp in tenths of a GB (0.5, 0.2)
DISK_SOFT == 5
DISK_HARD == 2

JobIds == 1..MaxJobs
Clients == 1..NClients
\* A client address that has sent nothing so far.  Its key is not in
\* rate_limit_storage when its request arrives; the key it leaves there is read
\* by no other client's request, and is not kept in the model.
Anyone == 0

\* Seconds that one Tick lets pass.
Steps == {300}

\* <<memory percent, free disk before the forced sweep, free disk after it>> as
\* one admission check reads them from psutil, -1 standing for the call raising:
\* all fine, memory high, disk low and then recovered, disk low and still low,
\* both calls raising.
Readings == {<<50, 6, 6>>, <<85, 6, 6>>, <<50, 3, 3>>, <<50, 1, 1>>, <<-1, -1, -1>>}
MemReadings == {r[1] : r \in Readings}

\* Request bodies: not JSON, JSON without a url, JSON with a url.
Bodies == {"notjson", "nourl", "url"}
InvalidBodies == {"notjson", "nourl"}

\* Outcomes of the blocking ydl.download call and the glob that follows it.
Outcomes == {"file", "nofile", "err429", "errunavailable", "errother"}

Min(a, b) == IF a < b THEN a ELSE b
Max(a, b) == IF a > b THEN a ELSE b

\* Saturation points of the stored ages.
JobAgeCap == Max(MAX_AGE, STATUS_LIFETIME) + 1
StampCap == Max(Max(DEFAULT_WINDOW, ULTRAFAST_WINDOW), ASYNC_WINDOW)

VARIABLES
    rate_limit_storage, \* client -> sequence of its recorded requests
    download_status,    \* job id -> [status, message, age] (age of created_at)
    download_files,     \* job ids with a registered result file path
    disk,               \* job ids whose scratch directory exists under /tmp
    active_downloads,   \* the global counter
    worker,             \* job id -> position of its background thread
    sync_inflight,      \* sync request threads blocked in ydl.download
    timer,              \* job id -> seconds until its cleanup Timer fires, -1: none
    cleaners,           \* job id -> waits of its pending delayed_cleanup threads
    sweep_in,           \* seconds until periodic_cleanup wakes up
    next_job,           \* job ids handed out so far
    last,               \* the HTTP response produced by the last step, if any
    hist,               \* history: job id -> what has happened to the job
    run,                \* history: client -> its current run of requests
    denial,             \* history: client -> its last request, if it was denied
    current_proxy,      \* first get_working_proxy: the proxy it holds, or None
    proxy_last_fetched, \* first get_working_proxy: age of its last good refresh
    proxy_list,         \* second get_working_proxy: the candidates
    current_proxy_index, \* second get_working_proxy: the rotation cursor
    proxy_last_updated, \* fetch_proxies_from_github: age of the last good refresh
    fetch_started,      \* a refresh thread started by get_working_proxy is pending
    verdict,            \* history: an earlier classification of an exception
    youtube_url,        \* the 'url' of a request body
    handed,             \* the URL a handler has passed to ydl.download
    metrics,            \* the counter and the psutil readings of one admission check
    admission,          \* what check_system_resources answered for them
    rl_pc,              \* request thread -> its position in decorated_function
    rl_kept,            \* request thread -> the pruned list it has built
    admitted,           \* history: requests the limiter has let through
    got,                \* what the last proxy operation did and returned
    swap,               \* proxy_lock and the positions of a get and a refresh thread
    sweep,              \* the position of a thread inside cleanup_old_downloads
    counting,           \* thread -> its position around an extraction, and the value it loaded
    cleaning            \* thread -> its position inside cleanup_download

\* The variables of proxy selection.  The request handlers hand the proxy they
\* get to yt-dlp and keep nothing of it, so proxy selection is followed in a
\* specification of its own (ProxySpec) and left alone by the other ones.
pvars == <<current_proxy, proxy_last_fetched, proxy_list, current_proxy_index,
           proxy_last_updated, fetch_started, got, swap>>

\* The variables of the statement-by-statement run of the rate limiter.
rvars == <<rl_pc, rl_kept, admitted>>

\* The variables of the specifications of single functions, and rvars.
fvars == <<youtube_url, handed, metrics, admission, rvars, sweep, counting,
           cleaning>>

\* What the request handlers and the threads of the job table leave alone.
aside == <<pvars, fvars, verdict>>

\* The variables of the request handlers and of the job table.
svars == <<rate_limit_storage, download_status, download_files, disk,
           active_downloads, worker, sync_inflight, timer, cleaners, sweep_in,
           next_job, last, hist, run, denial>>

vars == <<svars, pvars, fvars, verdict>>

\* ------------------------------------------------------------ rate limiter
\* A recorded request is its timestamp, kept as an age.  `by` names the
\* decorator that appended it; the code keeps no such mark and nothing below
\* reads it but the history and the properties.
Stamp(by) == [age |-> 0, by |-> by]

\* A pruning that keeps a timestamp exactly one window old (<= for <).
Prune_inclusive(stamps, window) == SelectSeq(stamps, LAMBDA s : s.age <= window)

\* The list comprehension of decorated_function: keep the timestamps with
\* now - timestamp < window.
Prune(stamps, window) == SelectSeq(stamps, LAMBDA s : s.age < window)

\* One call of decorated_function for client c by the decorator `lim`: prune or
\* create the client's list, deny at len >= max_requests, else append now.
rate_limit(storage, c, lim) ==
    LET kept == IF c \in DOMAIN storage THEN Prune(storage[c], lim.window) ELSE <<>>
        allowed == ~(Len(kept) >= lim.max_requests)
        stored == IF allowed THEN Append(kept, Stamp(lim.name)) ELSE kept
    IN  [allowed |-> allowed,
         retry_after |-> lim.window,
         by |-> lim.name,
         storage |-> [x \in DOMAIN storage \cup {c} |->
                         IF x = c THEN stored ELSE storage[x]]]

UltrafastLimiter ==
    [name |-> "ultrafast", max_requests |-> ULTRAFAST_MAX_REQUESTS,
     window |-> ULTRAFAST_WINDOW]
AsyncLimiter ==
    [name |-> "async", max_requests |-> ASYNC_MAX_REQUESTS, window |-> ASYNC_WINDOW]
DefaultLimiter ==
    [name |-> "default", max_requests |-> DEFAULT_MAX_REQUESTS,
     window |-> DEFAULT_WINDOW]

\* The rate_limit decorators a request to each route passes, outermost first.
\* /download/audio and /download/audio/fast are decorated with rate_limit() and
\* call download_audio_ultrafast, which names the decorated ultrafast view.
Limiters(ep) ==
    CASE ep = "ultrafast" -> <<UltrafastLimiter>>
      [] ep = "async" -> <<AsyncLimiter>>
      [] ep \in {"audio", "fast"} -> <<DefaultLimiter, UltrafastLimiter>>

SyncRoutes == {"ultrafast", "audio", "fast"}
Routes == SyncRoutes \cup {"async"}

\* The decorators of a route applied in order from decorator number i on; the
\* first one that denies answers the request.
RECURSIVE PassLimiters(_, _, _, _)
PassLimiters(storage, c, ep, i) ==
    IF i > Len(Limiters(ep))
    THEN [allowed |-> TRUE, retry_after |-> 0, by |-> "none", storage |-> storage]
    ELSE LET r == rate_limit(storage, c, Limiters(ep)[i])
         IN  IF r.allowed THEN PassLimiters(r.storage, c, ep, i + 1) ELSE r

EmptyMap == [x \in {} |-> 0]

\* What the decorators of route ep answer client c and the table they leave.
Limited(c, ep) ==
    IF c = Anyone
    THEN [PassLimiters(EmptyMap, c, ep, 1) EXCEPT !.storage = rate_limit_storage]
    ELSE PassLimiters(rate_limit_storage, c, ep, 1)

\* ---------------------------------------------------------------- job table
\* A store is the triple the cleanup functions work on.
Store == [status |-> download_status, files |-> download_files, disk |-> disk]

Without(f, j) == [x \in DOMAIN f \ {j} |-> f[x]]

\* cleanup_download(job_id): drop the file entry (removing the scratch directory
\* when the file exists) and drop the status record.
cleanup_download(S, j) ==
    LET S1 == IF j \in S.files
              THEN [S EXCEPT !.disk = @ \ {j}, !.files = @ \ {j}]
              ELSE S
    IN  IF j \in DOMAIN S1.status
        THEN [S1 EXCEPT !.status = Without(@, j)]
        ELSE S1

\* A collection that passes over the jobs that are completed.
to_delete_unfinished(S, force) ==
    LET age_limit == IF force THEN FORCE_AGE ELSE MAX_AGE
    IN  {j \in DOMAIN S.status :
            S.status[j].age > age_limit /\ S.status[j].status # "completed"}

\* cleanup_old_downloads: the job ids collected by the first loop.
to_delete(S, force) ==
    LET age_limit == IF force THEN FORCE_AGE ELSE MAX_AGE
    IN  {j \in DOMAIN S.status : S.status[j].age > age_limit}

\* cleanup_old_downloads: the second loop, cleanup_download for each of them.
RECURSIVE CleanupEach(_, _)
CleanupEach(S, D) ==
    IF D = {} THEN S
    ELSE LET j == CHOOSE x \in D : TRUE
         IN  CleanupEach(cleanup_download(S, j), D \ {j})

cleanup_old_downloads(S, force) == CleanupEach(S, to_delete(S, force))

\* ---------------------------------------------------------------- admission
\* A memory check that reports high load when psutil raises.
check_memory_usage_closed(mem) == mem = -1 \/ mem > MEM_LIMIT

\* check_memory_usage: TRUE when the reading is above the limit (the caller runs
\* the forced sweep that goes with it); a reading of -1 is the psutil call
\* raising, which is logged and answers FALSE.
check_memory_usage(mem) == mem # -1 /\ mem > MEM_LIMIT

\* An admission check that rejects on the first low disk reading.
check_system_resources_no_recheck(S, a, mem, d1, d2) ==
    IF a >= MAX_CONCURRENT_DOWNLOADS
    THEN [ok |-> FALSE, why |-> "concurrent", store |-> S]
    ELSE IF check_memory_usage(mem)
    THEN [ok |-> FALSE, why |-> "load", store |-> cleanup_old_downloads(S, TRUE)]
    ELSE IF d1 # -1 /\ d1 < DISK_SOFT
    THEN [ok |-> FALSE, why |-> "disk", store |-> cleanup_old_downloads(S, TRUE)]
    ELSE [ok |-> TRUE, why |-> "ok", store |-> S]

\* An admission check whose concurrency test is > for >=.
check_system_resources_loose(S, a, mem, d1, d2) ==
    IF a > MAX_CONCURRENT_DOWNLOADS
    THEN [ok |-> FALSE, why |-> "concurrent", store |-> S]
    ELSE IF check_memory_usage(mem)
    THEN [ok |-> FALSE, why |-> "load", store |-> cleanup_old_downloads(S, TRUE)]
    ELSE IF d1 # -1 /\ d1 < DISK_SOFT
    THEN [ok |-> ~(d2 # -1 /\ d2 < DISK_HARD), why |-> "disk",
          store |-> cleanup_old_downloads(S, TRUE)]
    ELSE [ok |-> TRUE, why |-> "ok", store |-> S]

\* check_system_resources with the counter value a, a memory reading and the two
\* disk readings (before and after the forced sweep): the verdict and the store
\* it leaves.
check_system_resources(S, a, mem, d1, d2) ==
    IF a >= MAX_CONCURRENT_DOWNLOADS
    THEN [ok |-> FALSE, why |-> "concurrent", store |-> S]
    ELSE IF check_memory_usage(mem)
    THEN [ok |-> FALSE, why |-> "load", store |-> cleanup_old_downloads(S, TRUE)]
    ELSE IF d1 # -1 /\ d1 < DISK_SOFT
    THEN [ok |-> ~(d2 # -1 /\ d2 < DISK_HARD), why |-> "disk",
          store |-> cleanup_old_downloads(S, TRUE)]
    ELSE [ok |-> TRUE, why |-> "ok", store |-> S]

\* ---------------------------------------------------------------- responses
\* `last` is what the step just taken answered: the route, the client and job
\* id it names (0: none), the HTTP status (0: the request is admitted and its
\* answer is still to come) and the retry_after of a rate-limit denial.
\* When the step handled an exception of ydl.download whose message the model
\* follows, `raised` is that message and `kind` the branch the handler took.
\* `called` names the external calls a request handler made in the step.
NoResponse == [ep |-> "none", client |-> 0, job |-> 0, code |-> 0, retry_after |-> 0,
               raised |-> <<>>, kind |-> "none", called |-> {}]

Response(ep, c, j, code) ==
    [NoResponse EXCEPT !.ep = ep, !.client = c, !.job = j, !.code = code]

Denied(ep, c, rl) == [Response(ep, c, 0, 429) EXCEPT !.retry_after = rl.retry_after]

\* The except branch of download_audio_ultrafast and the two returns before it:
\* the HTTP status of a sync request by the outcome of the extraction.
sync_status(outcome) ==
    CASE outcome = "file" -> 200
      [] outcome = "nofile" -> 500
      [] outcome = "err429" -> 429
      [] outcome = "errunavailable" -> 400
      [] outcome = "errother" -> 500

\* The message background_download_optimized records for a failed extraction.
failure_message(outcome) ==
    CASE outcome = "nofile" -> "No audio file was created"
      [] outcome = "err429" -> "Rate limited by YouTube. Try again later."
      [] outcome = "errunavailable" -> "Video is unavailable or private"
      [] outcome = "errother" -> "Download failed"

\* ------------------------------------------------------ error classification
\* The message of an exception is a sequence of pieces of text, so that "in"
\* is the search for a piece.  The pieces are written as yt-dlp writes them;
\* the handlers look for lower-case phrases in str(e).lower().
Messages ==
    {<<"HTTP Error ", "429", ": ", "Too Many Requests">>,
     <<"Unable to download webpage: ", "Too Many Requests">>,
     <<"Video ", "unavailable">>,
     <<"Private", " video">>,
     <<"This video has been ", "deleted", " (HTTP Error ", "429", ")">>,
     <<"This video has been ", "deleted">>,
     <<"Requested format is not available">>,
     <<"Connection reset by peer">>}

\* str.lower() of one piece.
LowerPiece(t) ==
    CASE t = "HTTP Error " -> "http error "
      [] t = " (HTTP Error " -> " (http error "
      [] t = "Too Many Requests" -> "too many requests"
      [] t = "Unable to download webpage: " -> "unable to download webpage: "
      [] t = "Video " -> "video "
      [] t = "Private" -> "private"
      [] t = "This video has been " -> "this video has been "
      [] t = "Requested format is not available" -> "requested format is not available"
      [] t = "Connection reset by peer" -> "connection reset by peer"
      [] OTHER -> t

lower(msg) == [i \in DOMAIN msg |-> LowerPiece(msg[i])]

\* phrase in text
Contains(text, phrase) == \E i \in DOMAIN text : text[i] = phrase

\* The except branch of download_audio_ultrafast with the checks in the
\* opposite order.
sync_kind_unavailable_first(msg) ==
    LET error_str == lower(msg)
    IN  IF \E phrase \in {"unavailable", "private", "deleted"} :
               Contains(error_str, phrase)
        THEN "errunavailable"
        ELSE IF Contains(error_str, "429") \/ Contains(error_str, "too many requests")
        THEN "err429"
        ELSE "errother"

\* The branch the except clause of download_audio_ultrafast takes for str(e).
sync_kind(msg) ==
    LET error_str == lower(msg)
    IN  IF Contains(error_str, "429") \/ Contains(error_str, "too many requests")
        THEN "err429"
        ELSE IF \E phrase \in {"unavailable", "private", "deleted"} :
                    Contains(error_str, phrase)
        THEN "errunavailable"
        ELSE "errother"

\* The except clause of background_download_optimized without its "deleted".
async_kind_two_phrases(msg) ==
    LET error_msg == lower(msg)
    IN  IF Contains(error_msg, "429") \/ Contains(error_msg, "too many requests")
        THEN "err429"
        ELSE IF \E phrase \in {"unavailable", "private"} : Contains(error_msg, phrase)
        THEN "errunavailable"
        ELSE "errother"

\* The except clause of background_download_optimized with the checks in the
\* opposite order.
async_kind_unavailable_first(msg) ==
    LET error_msg == lower(msg)
    IN  IF \E phrase \in {"unavailable", "private", "deleted"} :
               Contains(error_msg, phrase)
        THEN "errunavailable"
        ELSE IF Contains(error_msg, "429") \/ Contains(error_msg, "too many requests")
        THEN "err429"
        ELSE "errother"

\* The branch the except clause of background_download_optimized takes.
async_kind(msg) ==
    LET error_msg == lower(msg)
    IN  IF Contains(error_msg, "429") \/ Contains(error_msg, "too many requests")
        THEN "err429"
        ELSE IF \E phrase \in {"unavailable", "private", "deleted"} :
                    Contains(error_msg, phrase)
        THEN "errunavailable"
        ELSE "errother"

\* verdict: one classification made earlier, kept for comparison: the message,
\* the path that classified it, the branch taken, the HTTP status answered (0 on
\* the async path, which answers nothing) and the value of active_downloads
\* at that moment.
NoVerdict == [msg |-> <<>>, path |-> "none", kind |-> "none", code |-> 0, active |-> 0]

\* The history keeps the classification just made, or what it held.
Remember(msg, path, kind, code) ==
    \/ UNCHANGED verdict
    \/ verdict' = [msg |-> msg, path |-> path, kind |-> kind, code |-> code,
                   active |-> active_downloads]

\* download_status[job_id].update(...) of a record that exists.
Update(status, j, st, msg) ==
    [status EXCEPT ![j] = [@ EXCEPT !.status = st, !.message = msg]]

\* ------------------------------------------------------------------ history
\* hist[j]: the job has been marked completed; how many times its file has been
\* served (counted up to 2); a post-fetch cleanup thread of it has run; what
\* deleted its status record ("none" while nothing has).
\* processed: the worker has put the job in status 'processing'; escaped: an
\* exception has left background_download_optimized uncaught.
NoHist == [completed |-> FALSE, fetches |-> 0, fired |-> FALSE, deleted_by |-> "none",
           processed |-> FALSE, escaped |-> FALSE]

\* The history h after the job table has gone from store A to store B by `who`.
MarkOn(h, A, B, who) ==
    [j \in JobIds |->
        IF j \in DOMAIN A.status /\ j \notin DOMAIN B.status
        THEN [h[j] EXCEPT !.deleted_by = who]
        ELSE h[j]]

\* run[c]: the requests client c has sent since its window was last empty, while
\* they all went to one route: the route, how many, how many of them the limiter
\* denied, and the time from the first to now.  ep = "over" once the run has
\* mixed routes or outgrown MaxRun.
NoRun == [ep |-> "none", n |-> 0, denied |-> 0, span |-> 0]

\* denial[c]: the route that denied client c's latest request, the window the
\* denial reported and the time since; ep = "none" when the latest request of c
\* was not denied by the limiter.
\* `again` marks that the latest request of c was admitted by the limiter on the
\* route that had denied c a full window or more before.
NoDenial == [ep |-> "none", window |-> 0, since |-> 0, again |-> FALSE]

\* Every timestamp recorded for c is older than every window.
Fresh(storage, c) ==
    c \notin DOMAIN storage
        \/ \A i \in 1..Len(storage[c]) : storage[c][i].age >= StampCap

Counted(c, ep, rl) ==
    LET d == IF rl.allowed THEN 0 ELSE 1
        r == run[c]
    IN  IF r.ep = "none" THEN [ep |-> ep, n |-> 1, denied |-> d, span |-> 0]
        ELSE IF r.ep = ep /\ r.n < MaxRun
        THEN [r EXCEPT !.n = @ + 1, !.denied = @ + d]
        ELSE [NoRun EXCEPT !.ep = "over"]

\* The history of client c after the limiter has answered rl on route ep.
Seen(c, ep, rl) ==
    IF c \in Clients
    THEN /\ run' = [run EXCEPT ![c] = Counted(c, ep, rl)]
         /\ denial' = [denial EXCEPT ![c] =
                IF rl.allowed
                THEN [NoDenial EXCEPT !.again =
                         denial[c].ep = ep /\ denial[c].since >= denial[c].window]
                ELSE [NoDenial EXCEPT !.ep = ep, !.window = rl.retry_after]]
    ELSE UNCHANGED <<run, denial>>

\* -------------------------------------------------------------------- state
\* Python's None, where the other values are sequences.
None == <<>>

\* Both timestamps start at 0, the epoch: as ages they are beyond every interval.
PROXY_UPDATE_INTERVAL == 3600
proxy_update_interval == 1800
ProxyAgeCap == Max(PROXY_UPDATE_INTERVAL, proxy_update_interval) + 1

\* Threads that are followed statement by statement.
NThreads == 2
Threads == 1..NThreads

\* No thread is between the increment and the decrement of active_downloads.
NoCounting == [t \in Threads |-> [pc |-> "idle", loaded |-> 0, began |-> 0]]

\* No thread is inside cleanup_download.
NoCleaning == [t \in Threads |-> [pc |-> "idle", job |-> 0, raised |-> FALSE,
                                 did |-> {}]]

\* No thread is inside cleanup_old_downloads.
NoSweep == [pc |-> "idle", force |-> FALSE, used |-> 0, visited |-> {},
            to_delete |-> {}, aborted |-> FALSE]

\* proxy_lock free, no get_working_proxy and no fetch_proxies_from_github running.
NoSwap == [lock |-> "free", get_pc |-> "idle", left |-> 0, seen |-> <<>>,
           probes |-> 0, raised |-> FALSE, fetch_pc |-> "idle", unique |-> <<>>]

\* No proxy operation has run yet.
\* For a call of get_working_proxy: start is the cursor it began with, probed
\* the candidates it passed to test_proxy, working those that answer, passed
\* those for which test_proxy returned True, and opts the keys of the ydl_opts
\* its caller builds from the value returned.
NoGot == [op |-> "none", due |-> FALSE, reached |-> 0, value |-> None,
          ok |-> FALSE, raised |-> FALSE, held |-> None, kept |-> <<>>,
          start |-> 0, probed |-> <<>>, working |-> {}, passed |-> {}, opts |-> {}]

\* The globals of the second snapshot before its first refresh.
InitProxyList ==
    /\ proxy_list = <<>>
    /\ current_proxy_index = 0
    /\ proxy_last_updated = ProxyAgeCap
    /\ fetch_started = FALSE

\* Nothing has been passed to ydl.download yet.
NoHanded == [path |-> "none", url |-> <<>>]

\* No admission check is followed on its own.
NoMetrics == [active |-> 0, mem |-> -1, mem2 |-> -1, d1 |-> -1, d2 |-> -1, age |-> 0]
NoAdmission == [done |-> FALSE, ok |-> FALSE, why |-> "none", jobs |-> {}]

\* The handlers, the job table and the limiter after the module has been loaded.
InitTable ==
    /\ rl_pc = [t \in Threads |-> "idle"]
    /\ rl_kept = [t \in Threads |-> <<>>]
    /\ admitted = 0
    /\ current_proxy = None
    /\ proxy_last_fetched = ProxyAgeCap
    /\ got = NoGot
    /\ swap = NoSwap
    /\ sweep = NoSweep
    /\ counting = NoCounting
    /\ cleaning = NoCleaning
    /\ verdict = NoVerdict
    /\ rate_limit_storage = EmptyMap
    /\ download_status = EmptyMap
    /\ download_files = {}
    /\ disk = {}
    /\ active_downloads = 0
    /\ worker = [j \in JobIds |-> "none"]
    /\ sync_inflight = 0
    /\ timer = [j \in JobIds |-> -1]
    /\ cleaners = [j \in JobIds |-> <<>>]
    /\ sweep_in = SWEEP_PERIOD
    /\ next_job = 0
    /\ last = NoResponse
    /\ hist = [j \in JobIds |-> NoHist]
    /\ run = [c \in Clients |-> NoRun]
    /\ denial = [c \in Clients |-> NoDenial]

\* The server after the module has been loaded.
InitServer ==
    /\ InitTable
    /\ InitProxyList

Init ==
    /\ InitServer
    /\ youtube_url = <<>>
    /\ handed = NoHanded
    /\ metrics = NoMetrics
    /\ admission = NoAdmission

SetStore(S) ==
    /\ download_status' = S.status
    /\ download_files' = S.files
    /\ disk' = S.disk

\* The store becomes S by `who`, and the history notes the records that went.
Cleaned(S, who) ==
    /\ SetStore(S)
    /\ hist' = MarkOn(hist, Store, S, who)

\* ---------------------------------------------------------- sync download
\* POST /download/audio/ultrafast, /download/audio and /download/audio/fast,
\* from the decorators to the point where the handler blocks in ydl.download
\* (or answers before that).  `bodies` is what the client may send.
\* A handler that counts the request before it validates it.
SyncReject_counted(ep, c, S, code) ==
    /\ Cleaned(S, "forced sweep")
    /\ last' = Response(ep, c, 0, code)
    /\ active_downloads' = active_downloads + 1
    /\ UNCHANGED sync_inflight

\* download_audio_ultrafast returns 503 or 400 before its try block, the store
\* being S after check_system_resources.
SyncReject(ep, c, S, code) ==
    /\ Cleaned(S, "forced sweep")
    /\ last' = Response(ep, c, 0, code)
    /\ UNCHANGED <<active_downloads, sync_inflight>>

SyncRequest(c, ep, bodies) ==
    /\ ep \in SyncRoutes
    /\ LET rl == Limited(c, ep)
       IN  /\ rate_limit_storage' = rl.storage
           /\ Seen(c, ep, rl)
           /\ IF ~rl.allowed
              THEN /\ last' = Denied(ep, c, rl)
                   /\ UNCHANGED <<download_status, download_files, disk,
                                  active_downloads, sync_inflight, hist>>
              ELSE \E r \in Readings :
                   LET adm == check_system_resources(Store, active_downloads,
                                                     r[1], r[2], r[3])
                   IN  IF ~adm.ok
                       THEN SyncReject(ep, c, adm.store, 503)
                       ELSE \E body \in bodies :
                            IF body # "url"
                            THEN SyncReject(ep, c, adm.store, 400)
                            ELSE /\ active_downloads' = active_downloads + 1
                                 /\ Cleaned(cleanup_old_downloads(adm.store, TRUE), "forced sweep")
                                 /\ sync_inflight' = sync_inflight + 1
                                 /\ last' = [Response(ep, c, 0, 0) EXCEPT !.called =
                                                {"get_working_proxy", "ydl.download"}]
    /\ UNCHANGED <<worker, timer, cleaners, sweep_in, next_job>>
    /\ UNCHANGED aside

\* ydl.download returns or raises in a sync request thread: the response, and
\* the finally block.
\* `raised` is the message of the exception when the model follows it.
SyncFinish(outcome, raised) ==
    /\ sync_inflight > 0
    /\ sync_inflight' = sync_inflight - 1
    /\ active_downloads' = active_downloads - 1
    /\ last' = [Response("extraction", 0, 0, sync_status(outcome))
                    EXCEPT !.raised = raised,
                           !.kind = IF raised = <<>> THEN "none" ELSE outcome]
    /\ UNCHANGED <<rate_limit_storage, download_status, download_files, disk,
                   worker, timer, cleaners, sweep_in, next_job, hist, run, denial>>
    /\ UNCHANGED <<pvars, fvars>>

SyncEnd(outcome) ==
    /\ SyncFinish(outcome, <<>>)
    /\ UNCHANGED verdict

\* ydl.download raises an exception with message msg in a sync request thread.
SyncRaise(msg) ==
    /\ SyncFinish(sync_kind(msg), msg)
    /\ Remember(msg, "sync", sync_kind(msg), sync_status(sync_kind(msg)))

\* --------------------------------------------------------- async submission
\* POST /download/audio/async up to its 202 (or earlier) answer.
AsyncRequest(c, bodies) ==
    /\ LET rl == Limited(c, "async")
       IN  /\ rate_limit_storage' = rl.storage
           /\ Seen(c, "async", rl)
           /\ IF ~rl.allowed
              THEN /\ last' = Denied("async", c, rl)
                   /\ UNCHANGED <<download_status, download_files, disk,
                                  worker, next_job, hist>>
              ELSE \E r \in Readings :
                   LET adm == check_system_resources(Store, active_downloads,
                                                     r[1], r[2], r[3])
                   IN  IF ~adm.ok
                       THEN /\ Cleaned(adm.store, "forced sweep")
                            /\ last' = Response("async", c, 0, 503)
                            /\ UNCHANGED <<worker, next_job>>
                       ELSE \E body \in bodies :
                            IF body # "url"
                            THEN /\ Cleaned(adm.store, "forced sweep")
                                 /\ last' = Response("async", c, 0, 400)
                                 /\ UNCHANGED <<worker, next_job>>
                            ELSE LET S == cleanup_old_downloads(adm.store, FALSE)
                                     j == next_job + 1
                                 IN  /\ next_job < MaxJobs
                                     /\ next_job' = j
                                     /\ download_status' =
                                            [x \in DOMAIN S.status \cup {j} |->
                                                IF x = j
                                                THEN [status |-> "started",
                                                      message |-> "Download queued",
                                                      age |-> 0]
                                                ELSE S.status[x]]
                                     /\ download_files' = S.files
                                     /\ disk' = S.disk
                                     /\ hist' = MarkOn(MarkOn(hist, Store, adm.store,
                                                              "forced sweep"),
                                                       adm.store, S, "sweep")
                                     /\ worker' = [worker EXCEPT ![j] = "spawned"]
                                     /\ last' = Response("async", c, j, 202)
    /\ UNCHANGED <<active_downloads, sync_inflight, timer, cleaners, sweep_in>>
    /\ UNCHANGED aside

\* A worker that leaves the record as it is when the download fails.
Fail_unrecorded(status, j, msg) == status

\* ------------------------------------------------------------- async worker
\* Mark the job failed from inside the worker.  The update of a record that a
\* sweep or timer has deleted raises KeyError; it is raised again by the update
\* in the except branch, and the thread ends after its finally block.  Either
\* way the table holds no record the worker did not find.
Fail(status, j, msg) ==
    IF j \in DOMAIN status THEN Update(status, j, "failed", msg) ELSE status

\* A worker that leaves the status as it is where it should mark 'processing'.
Processing_skipped(status, j) == status

\* The first update of background_download_optimized.
Processing(status, j) == Update(status, j, "processing", "Processing video URL")

\* The history after an update of job j's record that raises KeyError when the
\* record is not in status: the except clause updates the record in its turn,
\* which raises again, and nothing catches that.
Escaping(h, status, j) ==
    IF j \in DOMAIN status THEN h ELSE [h EXCEPT ![j].escaped = TRUE]

\* background_download_optimized from its start to the get_working_proxy call:
\* the increment, the first update, the memory check with its forced sweep, the
\* scratch directory.  On the paths that end here the finally block has taken
\* the increment back.
WorkerBegin(j) ==
    /\ worker[j] = "spawned"
    /\ last' = NoResponse
    /\ IF j \notin DOMAIN download_status
       THEN /\ worker' = [worker EXCEPT ![j] = "done"]
            /\ hist' = Escaping(hist, download_status, j)
            /\ UNCHANGED <<download_status, download_files, disk, active_downloads>>
       ELSE LET P == Processing(download_status, j)
                H == [hist EXCEPT ![j].processed = @ \/ P[j].status = "processing"]
            IN  \E mem \in MemReadings :
                IF check_memory_usage(mem)
                THEN LET S == cleanup_old_downloads([Store EXCEPT !.status = P], TRUE)
                     IN  /\ worker' = [worker EXCEPT ![j] = "done"]
                         /\ download_files' = S.files
                         /\ disk' = S.disk
                         /\ download_status' =
                                Fail(S.status, j, "Server overloaded. Try again later.")
                         /\ hist' = Escaping(MarkOn(H, Store, S, "forced sweep"),
                                             S.status, j)
                         /\ UNCHANGED active_downloads
                ELSE /\ active_downloads' = active_downloads + 1
                     /\ download_status' =
                            [P EXCEPT ![j].message = "Downloading audio..."]
                     /\ disk' = disk \cup {j}
                     /\ worker' = [worker EXCEPT ![j] = "proxy"]
                     /\ hist' = H
                     /\ UNCHANGED download_files
    /\ UNCHANGED <<rate_limit_storage, sync_inflight, timer, cleaners, sweep_in,
                   next_job, run, denial>>
    /\ UNCHANGED aside

\* get_working_proxy returns: the update before the blocking ydl.download call.
WorkerProxy(j) ==
    /\ worker[j] = "proxy"
    /\ last' = NoResponse
    /\ IF j \in DOMAIN download_status
       THEN /\ download_status' =
                   [download_status EXCEPT ![j].message = "Converting to MP3..."]
            /\ worker' = [worker EXCEPT ![j] = "download"]
            /\ UNCHANGED <<active_downloads, disk>>
       ELSE /\ worker' = [worker EXCEPT ![j] = "done"]
            /\ active_downloads' = active_downloads - 1
            /\ disk' = IF j \notin download_files THEN disk \ {j} ELSE disk
            /\ UNCHANGED download_status
    /\ hist' = Escaping(hist, download_status, j)
    /\ UNCHANGED <<rate_limit_storage, download_files, sync_inflight, timer,
                   cleaners, sweep_in, next_job, run, denial>>
    /\ UNCHANGED aside

\* ydl.download returns or raises in the worker: the file is registered and the
\* job marked completed with its 1800 s timer, or the job is marked failed;
\* then the finally block.
\* `raised` is the message of the exception when the model follows it.
WorkerFinish(j, outcome, raised) ==
    /\ worker[j] = "download"
    /\ last' = IF raised = <<>>
               THEN NoResponse
               ELSE [NoResponse EXCEPT !.ep = "worker", !.job = j,
                                       !.raised = raised, !.kind = outcome]
    /\ worker' = [worker EXCEPT ![j] = "done"]
    /\ active_downloads' = active_downloads - 1
    /\ IF outcome = "file"
       THEN /\ download_files' = download_files \cup {j}
            /\ UNCHANGED disk
            /\ IF j \in DOMAIN download_status
               THEN /\ download_status' =
                           Update(download_status, j, "completed",
                                  "Download completed successfully")
                    /\ timer' = [timer EXCEPT ![j] = TIMER_DELAY]
                    /\ hist' = [hist EXCEPT ![j].completed = TRUE]
               ELSE /\ hist' = Escaping(hist, download_status, j)
                    /\ UNCHANGED <<download_status, timer>>
       ELSE /\ download_status' = Fail(download_status, j, failure_message(outcome))
            /\ disk' = IF j \notin download_files THEN disk \ {j} ELSE disk
            /\ hist' = Escaping(hist, download_status, j)
            /\ UNCHANGED <<download_files, timer>>
    /\ UNCHANGED <<rate_limit_storage, sync_inflight, cleaners, sweep_in,
                   next_job, run, denial>>
    /\ UNCHANGED <<pvars, fvars>>

WorkerEnd(j, outcome) ==
    /\ WorkerFinish(j, outcome, <<>>)
    /\ UNCHANGED verdict

\* ydl.download raises an exception with message msg in the worker of job j.
WorkerRaise(j, msg) ==
    /\ WorkerFinish(j, async_kind(msg), msg)
    /\ Remember(msg, "async", async_kind(msg), 0)

\* The threading.Timer started on completion fires: cleanup_download(job_id).
TimerFire(j) ==
    /\ timer[j] = 0
    /\ timer' = [timer EXCEPT ![j] = -1]
    /\ Cleaned(cleanup_download(Store, j), "timer")
    /\ last' = NoResponse
    /\ UNCHANGED <<rate_limit_storage, active_downloads, worker, sync_inflight,
                   cleaners, sweep_in, next_job, run, denial>>
    /\ UNCHANGED aside

\* ------------------------------------------------------- status and file
\* GET /download/status/<job_id>
check_download_status(j) ==
    /\ last' = Response("status", 0, j,
                        IF j \notin DOMAIN download_status THEN 404 ELSE 200)
    /\ UNCHANGED <<rate_limit_storage, download_status, download_files, disk,
                   active_downloads, worker, sync_inflight, timer, cleaners,
                   sweep_in, next_job, hist, run, denial>>
    /\ UNCHANGED aside

\* get_download_file: the HTTP status by the state of the job.
file_answer(S, j) ==
    IF j \notin DOMAIN S.status THEN 404
    ELSE IF S.status[j].status # "completed" THEN 400
    ELSE IF j \notin S.files THEN 404
    ELSE IF j \notin S.disk THEN 404
    ELSE 200

\* GET /download/file/<job_id>: answer; when the file is sent, start a
\* delayed_cleanup thread; when the path is registered but the file is gone,
\* clean the job up.
get_download_file(j) ==
    /\ LET code == file_answer(Store, j)
       IN  /\ last' = Response("file", 0, j, code)
           /\ IF code = 200
              THEN /\ Len(cleaners[j]) < MaxFetch
                   /\ cleaners' = [cleaners EXCEPT ![j] = Append(@, FETCH_CLEANUP_DELAY)]
                   /\ hist' = [hist EXCEPT ![j].fetches = Min(@ + 1, 2)]
                   /\ UNCHANGED <<download_status, download_files, disk>>
              ELSE /\ IF /\ j \in DOMAIN download_status
                         /\ download_status[j].status = "completed"
                         /\ j \in download_files
                      THEN Cleaned(cleanup_download(Store, j), "file check")
                      ELSE UNCHANGED <<download_status, download_files, disk, hist>>
                   /\ UNCHANGED cleaners
    /\ UNCHANGED <<rate_limit_storage, active_downloads, worker, sync_inflight,
                   timer, sweep_in, next_job, run, denial>>
    /\ UNCHANGED aside

\* A delayed_cleanup thread that wakes from its sleep and ends without the
\* cleanup_download call.
delayed_cleanup_idle(j) ==
    /\ cleaners[j] # <<>>
    /\ Head(cleaners[j]) = 0
    /\ cleaners' = [cleaners EXCEPT ![j] = Tail(@)]
    /\ hist' = [hist EXCEPT ![j].fired = TRUE]
    /\ last' = NoResponse
    /\ UNCHANGED <<rate_limit_storage, download_status, download_files, disk,
                   active_downloads, worker, sync_inflight, timer, sweep_in,
                   next_job, run, denial>>
    /\ UNCHANGED aside

\* A delayed_cleanup thread wakes from its sleep: cleanup_download(job_id).
delayed_cleanup(j) ==
    /\ cleaners[j] # <<>>
    /\ Head(cleaners[j]) = 0
    /\ cleaners' = [cleaners EXCEPT ![j] = Tail(@)]
    /\ SetStore(cleanup_download(Store, j))
    /\ hist' = [MarkOn(hist, Store, cleanup_download(Store, j), "post-fetch cleanup")
                    EXCEPT ![j].fired = TRUE]
    /\ last' = NoResponse
    /\ UNCHANGED <<rate_limit_storage, active_downloads, worker, sync_inflight,
                   timer, sweep_in, next_job, run, denial>>
    /\ UNCHANGED aside

\* periodic_cleanup wakes from its sleep: one normal sweep, then sleep again.
periodic_cleanup ==
    /\ sweep_in = 0
    /\ sweep_in' = SWEEP_PERIOD
    /\ Cleaned(cleanup_old_downloads(Store, FALSE), "sweep")
    /\ last' = NoResponse
    /\ UNCHANGED <<rate_limit_storage, active_downloads, worker, sync_inflight,
                   timer, cleaners, next_job, run, denial>>
    /\ UNCHANGED aside

\* --------------------------------------------------------------------- time
Older(a, d, cap) == Min(a + d, cap)
Left(t, d) == IF t = -1 THEN -1 ELSE Max(t - d, 0)

\* d seconds pass.
Tick(d) ==
    /\ rate_limit_storage' =
           [c \in DOMAIN rate_limit_storage |->
               [i \in 1..Len(rate_limit_storage[c]) |->
                   [rate_limit_storage[c][i] EXCEPT !.age = Older(@, d, StampCap)]]]
    /\ download_status' =
           [j \in DOMAIN download_status |->
               [download_status[j] EXCEPT !.age = Older(@, d, JobAgeCap)]]
    /\ timer' = [j \in JobIds |-> Left(timer[j], d)]
    /\ cleaners' = [j \in JobIds |->
                       [i \in 1..Len(cleaners[j]) |-> Left(cleaners[j][i], d)]]
    /\ sweep_in' = Left(sweep_in, d)
    /\ run' = [c \in Clients |->
                  IF Fresh(rate_limit_storage', c) THEN NoRun
                  ELSE IF run[c].ep \in Routes
                  THEN [run[c] EXCEPT !.span = Older(@, d, StampCap)]
                  ELSE run[c]]
    /\ denial' = [c \in Clients |->
                     IF denial[c].ep = "none" THEN denial[c]
                     ELSE [denial[c] EXCEPT !.since = Older(@, d, StampCap)]]
    /\ last' = NoResponse
    /\ UNCHANGED <<download_files, disk, active_downloads, worker, sync_inflight,
                   next_job, hist>>
    /\ UNCHANGED aside

\* ----------------------------------------------------------- specifications
\* The server with all its threads; every request comes from a client address
\* that has sent nothing before.
Next ==
    \/ \E ep \in SyncRoutes : SyncRequest(Anyone, ep, Bodies)
    \/ \E o \in Outcomes : SyncEnd(o)
    \/ AsyncRequest(Anyone, Bodies)
    \/ \E j \in JobIds : WorkerBegin(j)
    \/ \E j \in JobIds : WorkerProxy(j)
    \/ \E j \in JobIds, o \in Outcomes : WorkerEnd(j, o)
    \/ \E j \in JobIds : TimerFire(j)
    \/ \E j \in JobIds : check_download_status(j)
    \/ \E j \in JobIds : get_download_file(j)
    \/ \E j \in JobIds : delayed_cleanup(j)
    \/ periodic_cleanup
    \/ \E d \in Steps : Tick(d)

Spec == Init /\ [][Next]_vars

\* The rate limiter under the requests of the tracked clients.  Only
\* decorated_function reads or writes rate_limit_storage; the requests carry
\* bodies the handlers refuse, so that the job table stays as it is.
RateNext ==
    \/ \E c \in Clients, ep \in SyncRoutes : SyncRequest(c, ep, InvalidBodies)
    \/ \E c \in Clients : AsyncRequest(c, InvalidBodies)
    \/ \E d \in Steps : Tick(d)

RateSpec == Init /\ [][RateNext]_vars

\* The server run as a program (the periodic_cleanup thread is started under
\* __main__): time passes, and the sleeping periodic_cleanup thread is scheduled
\* when its sleep is over.
FairSweepSpec ==
    Spec /\ WF_vars(\E d \in Steps : Tick(d)) /\ WF_vars(periodic_cleanup)

\* Time passes, and every delayed_cleanup thread is scheduled when its sleep is
\* over.
FairFetchSpec ==
    /\ Spec
    /\ WF_vars(\E d \in Steps : Tick(d))
    /\ \A j \in JobIds : WF_vars(delayed_cleanup(j))

\* =================================================================== claims
\* Extractions in progress: request threads blocked in ydl.download and workers
\* between their increment and their finally block.
Inflight ==
    sync_inflight + Cardinality({j \in JobIds : worker[j] \in {"proxy", "download"}})

\* Nothing of job j is left: no status record, no file entry, no scratch directory.
Gone(j) == j \notin DOMAIN download_status /\ j \notin download_files /\ j \notin disk

IsCompleted(j) ==
    j \in DOMAIN download_status /\ download_status[j].status = "completed"

\* The decorator a route is declared with.
Own(ep) == Limiters(ep)[1]

\* C1: of the n requests one client sends to one route within less than that
\* route's window, starting from an empty window, exactly max(0, n - limit) are
\* denied, and a denial reports retry_after >= the window.
C1_WindowQuota ==
    /\ \A c \in Clients :
          (run[c].ep \in Routes /\ run[c].span < Own(run[c].ep).window)
              => run[c].denied = Max(0, run[c].n - Own(run[c].ep).max_requests)
    /\ (last.ep \in Routes /\ last.code = 429)
          => last.retry_after >= Own(last.ep).window

\* C2: a request that reaches the admission check while
\* MAX_CONCURRENT_DOWNLOADS extractions (or more) are in progress is answered
\* 503, and when one of MAX_CONCURRENT_DOWNLOADS extractions ends, the counter
\* is below the ceiling again, so that the concurrency test of the next request
\* passes.
C2_CeilingRejects ==
    [][/\ (last'.ep \in Routes /\ last'.code # 429
              /\ Inflight >= MAX_CONCURRENT_DOWNLOADS)
          => last'.code = 503
       /\ (Inflight = MAX_CONCURRENT_DOWNLOADS /\ Inflight' < Inflight)
          => ~(active_downloads' >= MAX_CONCURRENT_DOWNLOADS)]_vars

\* A request has just been answered 503 with the ceiling reached.
C2_Witness ==
    /\ last.ep \in Routes
    /\ last.code = 503
    /\ Inflight = MAX_CONCURRENT_DOWNLOADS
    /\ active_downloads = MAX_CONCURRENT_DOWNLOADS

\* C3: active_downloads never exceeds MAX_CONCURRENT_DOWNLOADS.
C3_CeilingStrict == active_downloads <= MAX_CONCURRENT_DOWNLOADS

\* C4: a job has a registered result file exactly when its status is completed.
C4_FileIffCompleted ==
    \A j \in JobIds : (j \in download_files) <=> IsCompleted(j)

\* C5: a completed job whose file has not been fetched is eventually deleted,
\* record, file entry and directory.
C5_UnfetchedSwept ==
    \A j \in JobIds : (IsCompleted(j) /\ hist[j].fetches = 0) ~> Gone(j)

\* A completed job that was never fetched has been deleted by a normal sweep.
C5_Witness ==
    \E j \in JobIds :
        /\ hist[j].completed
        /\ hist[j].fetches = 0
        /\ hist[j].deleted_by = "sweep"
        /\ Gone(j)

\* C6: once the file of a completed job has been served, the job is eventually
\* deleted, record, file entry and directory.
C6_FetchedCleaned ==
    \A j \in JobIds : (hist[j].fetches > 0) ~> Gone(j)

\* A fetched job has been deleted by its post-fetch cleanup thread while its
\* 1800 s timer still had time to run.
C6_Witness ==
    \E j \in JobIds :
        /\ hist[j].fetches > 0
        /\ hist[j].deleted_by = "post-fetch cleanup"
        /\ timer[j] > 0
        /\ Gone(j)

\* C7: no step deletes a completed job whose file has not been fetched and that
\* is less than 30 minutes old: its record, file entry and file are still there
\* after the step.
C7_RetainedUntilExpiry ==
    [][\A j \in JobIds :
          (IsCompleted(j) /\ hist[j].fetches = 0
              /\ download_status[j].age < STATUS_LIFETIME)
          => (j \in DOMAIN download_status' /\ j \in download_files' /\ j \in disk')]_vars

\* C8: the file endpoint answers 400 for a job that is in the table and has not
\* completed, the file for a job that has completed and whose post-fetch
\* cleanup has not run (first and second fetch), and 404 once a post-fetch
\* cleanup has run.
C8_FetchOrder ==
    [][\A j \in JobIds :
          (last'.ep = "file" /\ last'.job = j)
          => /\ hist[j].fired => last'.code = 404
             /\ (hist[j].completed /\ ~hist[j].fired) => last'.code = 200
             /\ (~hist[j].completed /\ j \in DOMAIN download_status)
                   => last'.code = 400]_vars

\* C9: a client whose latest request was denied on a route, and which has sent
\* nothing since, is not denied on that route once the window the denial
\* reported has passed.
C9_AllowedAfterWindow ==
    [][\A c \in Clients :
          (denial[c].ep \in Routes /\ denial[c].since >= denial[c].window
              /\ last'.client = c /\ last'.ep = denial[c].ep)
          => last'.code # 429]_vars

\* A client has been admitted by the limiter that denied it a window before.
C9_Witness == \E c \in Clients : denial[c].again

\* C10: a request to a route leaves the timestamps recorded by the decorators of
\* other routes in the client's window, and is denied only when the timestamps
\* recorded by the route's own decorators reach one of their limits.
C10_IndependentWindows ==
    [][\A c \in Clients :
          (last'.client = c /\ last'.ep \in Routes)
          => LET own == {Limiters(last'.ep)[i].name : i \in DOMAIN Limiters(last'.ep)}
                 before == IF c \in DOMAIN rate_limit_storage
                           THEN rate_limit_storage[c] ELSE <<>>
                 after == rate_limit_storage'[c]
                 Others(q) == SelectSeq(q, LAMBDA x : x.by \notin own)
                 Mine(q, w) == SelectSeq(q, LAMBDA x : x.by \in own /\ x.age < w)
             IN  /\ Others(after) = Others(before)
                 /\ last'.code = 429
                       => \E i \in DOMAIN Limiters(last'.ep) :
                             Len(Mine(after, Limiters(last'.ep)[i].window))
                                 >= Limiters(last'.ep)[i].max_requests]_vars

\* ---------------------------------------------------------- proxy selection
\* The file holds two implementations of get_working_proxy, one per snapshot:
\* the first keeps one proxy (current_proxy), the second a list it rotates
\* through (proxy_list), refreshed by fetch_proxies_from_github.

\* Lines in the text one source answers with.
MaxLines == 1
\* The probes of one rotation pass.
PROBE_LIMIT == 5

\* A line is a sequence of tokens; " " is white space, ":" the colon.
RawLines == {<<"1.1.1.1", ":", "80">>, <<" ", "2.2.2.2", ":", "8080", " ">>,
             <<"<html>">>}

RECURSIVE lstrip(_)
lstrip(line) ==
    IF line # <<>> /\ Head(line) = " " THEN lstrip(Tail(line)) ELSE line

RECURSIVE rstrip(_)
rstrip(line) ==
    IF line # <<>> /\ line[Len(line)] = " "
    THEN rstrip(SubSeq(line, 1, Len(line) - 1))
    ELSE line

strip(line) == rstrip(lstrip(line))

HasColon(line) == \E i \in DOMAIN line : line[i] = ":"

\* f"http://{selected}"
Format(selected) == <<"http://">> \o selected

Texts == UNION {[1..n -> RawLines] : n \in 0..MaxLines}

\* What requests.get yields for one source: it raises (reached = FALSE), or
\* answers with a status code and a text.
Answers ==
    {[reached |-> FALSE, status_code |-> 0, text |-> <<>>]}
    \cup {[reached |-> TRUE, status_code |-> 500, text |-> <<>>]}
    \cup {[reached |-> TRUE, status_code |-> 200, text |-> t] : t \in Texts}

Reached(a1, a2) == (IF a1.reached THEN 1 ELSE 0) + (IF a2.reached THEN 1 ELSE 0)

\* The proxies read from one source.
Proxies(a) ==
    IF a.reached /\ a.status_code = 200
    THEN SelectSeq([i \in DOMAIN a.text |-> strip(a.text[i])], HasColon)
    ELSE <<>>

Range(q) == {q[i] : i \in DOMAIN q}

\* list(set(...)) followed by random.shuffle: the distinct elements in any order.
Orders(S) == {q \in [1..Cardinality(S) -> S] : Range(q) = S}

\* The keys of the ydl_opts a handler builds around the proxy it got.
ydl_opts(proxy_url) ==
    {"format", "outtmpl", "postprocessors"}
        \cup (IF proxy_url # None THEN {"proxy"} ELSE {})

ProxyOp(op, due, a1, a2, value, ok) ==
    [NoGot EXCEPT !.op = op, !.due = due, !.reached = Reached(a1, a2),
                  !.value = value, !.ok = ok, !.held = current_proxy,
                  !.kept = proxy_list,
                  !.opts = IF op = "get_working_proxy" THEN ydl_opts(value) ELSE {}]

\* get_working_proxy of the first snapshot, a1 and a2 being what the two
\* sources answer if it asks them.
get_working_proxy(a1, a2) ==
    LET due == proxy_last_fetched > PROXY_UPDATE_INTERVAL \/ current_proxy = None
        all_proxies == Proxies(a1) \o Proxies(a2)
    IN  /\ IF due
           THEN IF all_proxies # <<>>
                THEN /\ \E i \in DOMAIN all_proxies :
                           current_proxy' = Format(all_proxies[i])
                     /\ proxy_last_fetched' = 0
                ELSE /\ current_proxy' = None
                     /\ UNCHANGED proxy_last_fetched
           ELSE UNCHANGED <<current_proxy, proxy_last_fetched>>
        /\ got' = ProxyOp("get_working_proxy", due, a1, a2, current_proxy', FALSE)
        /\ UNCHANGED <<proxy_list, current_proxy_index, proxy_last_updated,
                       fetch_started, swap>>
        /\ UNCHANGED <<svars, fvars, verdict>>

\* The head of fetch_proxies_from_github: the proxies gathered from the sources.
new_proxies(a1, a2) ==
    LET all == Proxies(a1) \o Proxies(a2)
    IN  [i \in DOMAIN all |-> Format(all[i])]

\* fetch_proxies_from_github, run at startup, by update_proxies_periodic and by
\* the threads get_working_proxy starts.
fetch_proxies_from_github(a1, a2) ==
    LET new == new_proxies(a1, a2)
    IN  /\ IF new # <<>>
           THEN /\ \E unique_proxies \in Orders(Range(new)) :
                       proxy_list' = unique_proxies
                /\ proxy_last_updated' = 0
           ELSE UNCHANGED <<proxy_list, proxy_last_updated>>
        /\ fetch_started' = FALSE
        /\ got' = ProxyOp("fetch_proxies_from_github", TRUE, a1, a2, None,
                          new # <<>>)
        /\ UNCHANGED <<current_proxy, proxy_last_fetched, current_proxy_index,
                       swap>>
        /\ UNCHANGED <<svars, fvars, verdict>>

\* The rotation pass: n probes left, the cursor at index (counted from 0 as in
\* the code), working being the proxies that answer a probe.
\* The result also lists the candidates probed, in order.
RECURSIVE ProbeFrom(_, _, _, _, _)
ProbeFrom(list, index, n, working, probed) ==
    IF n = 0
    THEN [index |-> index, proxy |-> None, probed |-> probed]
    ELSE LET next == (index + 1) % Len(list)
             tried == Append(probed, list[next + 1])
         IN  IF list[next + 1] \in working
             THEN [index |-> next, proxy |-> list[next + 1], probed |-> tried]
             ELSE ProbeFrom(list, next, n - 1, working, tried)

\* A pass that begins with the candidate under the cursor.
Probe_same_first(list, index, n, working) ==
    ProbeFrom(list, (index + Len(list) - 1) % Len(list), n, working, <<>>)

\* A pass that falls back on the last candidate probed when none answers.
Probe_last_resort(list, index, n, working) ==
    LET r == ProbeFrom(list, index, n, working, <<>>)
    IN  IF r.proxy = None /\ r.probed # <<>>
        THEN [r EXCEPT !.proxy = r.probed[Len(r.probed)]]
        ELSE r

Probe(list, index, n, working) == ProbeFrom(list, index, n, working, <<>>)

\* get_working_proxy of the second snapshot.
get_working_proxy_rotating(working) ==
    LET r == IF proxy_list = <<>>
             THEN [index |-> current_proxy_index, proxy |-> None, probed |-> <<>>]
             ELSE Probe(proxy_list, current_proxy_index,
                        Min(PROBE_LIMIT, Len(proxy_list)), working)
    IN  /\ fetch_started' =
               (fetch_started \/ proxy_last_updated > proxy_update_interval)
        /\ current_proxy_index' = r.index
        /\ got' = [NoGot EXCEPT
                      !.op = "get_working_proxy_rotating",
                      !.due = proxy_last_updated > proxy_update_interval,
                      !.value = r.proxy, !.held = current_proxy,
                      !.kept = proxy_list, !.start = current_proxy_index,
                      !.probed = r.probed, !.working = working,
                      !.passed = Range(r.probed) \cap working,
                      !.opts = ydl_opts(r.proxy)]
        /\ UNCHANGED <<current_proxy, proxy_last_fetched, proxy_list,
                       proxy_last_updated, swap>>
        /\ UNCHANGED <<svars, fvars, verdict>>

ProxySteps == {1800}

\* Time passes for the proxy timestamps.
ProxyTick(d) ==
    /\ proxy_last_fetched' = Older(proxy_last_fetched, d, ProxyAgeCap)
    /\ proxy_last_updated' = Older(proxy_last_updated, d, ProxyAgeCap)
    /\ \/ proxy_last_fetched' # proxy_last_fetched
       \/ proxy_last_updated' # proxy_last_updated
    /\ UNCHANGED <<current_proxy, proxy_list, current_proxy_index, fetch_started,
                   got, swap>>
    /\ UNCHANGED <<svars, fvars, verdict>>

ProxyNext ==
    \/ \E a1 \in Answers, a2 \in Answers : get_working_proxy(a1, a2)
    \/ \E a1 \in Answers, a2 \in Answers : fetch_proxies_from_github(a1, a2)
    \/ \E working \in SUBSET Range(proxy_list) : get_working_proxy_rotating(working)
    \/ \E d \in ProxySteps : ProxyTick(d)

ProxySpec == Init /\ [][ProxyNext]_vars

\* A refresh in which no source was reached.
FailedRefresh ==
    /\ got.op \in {"get_working_proxy", "fetch_proxies_from_github"}
    /\ got.due
    /\ got.reached = 0

\* C11: when no proxy-list source is reached during a refresh, the proxy
\* candidates held before it are still held after it, and the call does not
\* raise.  (got.held and got.kept are what was held when the refresh began; no
\* other step changes the candidates while got stays as it is.)
C11_FailedRefreshKeeps ==
    FailedRefresh => /\ current_proxy = got.held
                     /\ proxy_list = got.kept
                     /\ ~got.raised

\* ------------------------------------------------- failures of the extraction
\* The handlers and the worker under extractions that return or raise with one
\* of Messages; every request carries a URL.
ErrorNext ==
    \/ \E ep \in SyncRoutes : SyncRequest(Anyone, ep, {"url"})
    \/ \E outcome \in {"file", "nofile"} : SyncEnd(outcome)
    \/ \E msg \in Messages : SyncRaise(msg)
    \/ AsyncRequest(Anyone, {"url"})
    \/ \E j \in JobIds :
          \/ WorkerBegin(j)
          \/ WorkerProxy(j)
          \/ \E outcome \in {"file", "nofile"} : WorkerEnd(j, outcome)
          \/ \E msg \in Messages : WorkerRaise(j, msg)

ErrorSpec == Init /\ [][ErrorNext]_vars

\* The step is an except clause handling an exception of ydl.download.
Raising ==
    /\ last'.raised # <<>>
    /\ sync_inflight' # sync_inflight \/ worker' # worker

\* The path of the classification `last` reports.
PathOf(r) == IF r.ep = "extraction" THEN "sync" ELSE "async"

C13_RateLimitedOnce ==
    [][(Raising /\ Contains(lower(last'.raised), "429"))
          => /\ last'.kind = "err429"
             /\ PathOf(last') = "sync"
                   => /\ last'.code = 429
                      /\ sync_inflight' = sync_inflight - 1
                      /\ active_downloads' = active_downloads - 1
             /\ PathOf(last') = "async"
                   => /\ worker'[last'.job] = "done"
                      /\ active_downloads' = active_downloads - 1
                      /\ last'.job \in DOMAIN download_status'
                            => /\ download_status'[last'.job].status = "failed"
                               /\ download_status'[last'.job].message =
                                      "Rate limited by YouTube. Try again later."]_vars

\* A sync request whose extraction failed with a message that holds "429" and a
\* phrase of the next branch has been answered 429.
C13_Witness ==
    /\ Contains(lower(last.raised), "429")
    /\ Contains(lower(last.raised), "deleted")
    /\ PathOf(last) = "sync"
    /\ last.code = 429

\* C14: after a failure whose message contains "requested format is not
\* available" the sync request is not answered yet, as a fallback attempt runs
\* (the thread is in ydl.download again), or it is answered 400.
C14_FormatFallback ==
    [][(/\ Raising
        /\ Contains(lower(last'.raised), "requested format is not available")
        /\ PathOf(last') = "sync")
          => \/ sync_inflight' = sync_inflight /\ last'.code = 0
             \/ last'.code = 400]_vars

\* ---------------------------------------------------------------- URL cleaning
\* A URL is a sequence of pieces of text; "&list=" is one piece.
MaxUrlLen == 3

UrlPieces == {"https://youtu.be/watch?v=abc", "&list=", "PL1", "&t=10"}

\* The URLs a request may carry; the empty one is answered 400 before cleaning.
Urls == UNION {[1..n -> UrlPieces] : n \in 1..MaxUrlLen}

\* str.split(sep): the parts of text between the occurrences of sep.
RECURSIVE split(_, _)
split(text, sep) ==
    IF \A i \in DOMAIN text : text[i] # sep
    THEN <<text>>
    ELSE LET k == CHOOSE i \in DOMAIN text :
                      text[i] = sep /\ \A h \in 1..(i - 1) : text[h] # sep
         IN  <<SubSeq(text, 1, k - 1)>> \o split(SubSeq(text, k + 1, Len(text)), sep)

\* URL cleaning of download_audio_ultrafast.
clean_sync(url) ==
    IF Contains(url, "&list=") THEN split(url, "&list=")[1] ELSE url

\* A cleaning that keeps the part after the last "&list=".
clean_async_last(url) ==
    IF Contains(url, "&list=")
    THEN split(url, "&list=")[Len(split(url, "&list="))]
    ELSE url

\* URL cleaning of background_download_optimized.
clean_async(url) ==
    IF Contains(url, "&list=") THEN split(url, "&list=")[1] ELSE url

\* download_audio_ultrafast cleans the URL of the body and passes it on.
CleanSync ==
    /\ handed' = [path |-> "sync", url |-> clean_sync(youtube_url)]
    /\ UNCHANGED <<svars, pvars, verdict, youtube_url, metrics, admission, rvars,
                   sweep, counting, cleaning>>

\* background_download_optimized cleans the URL it was started with.
CleanAsync ==
    /\ handed' = [path |-> "async", url |-> clean_async(youtube_url)]
    /\ UNCHANGED <<svars, pvars, verdict, youtube_url, metrics, admission, rvars,
                   sweep, counting, cleaning>>

UrlInit ==
    /\ InitServer
    /\ youtube_url \in Urls
    /\ handed = NoHanded
    /\ metrics = NoMetrics
    /\ admission = NoAdmission

UrlNext == CleanSync \/ CleanAsync

UrlSpec == UrlInit /\ [][UrlNext]_vars

\* C15: on both paths, what is passed to ydl.download is the URL up to its
\* first "&list=" when it has one, and the URL itself when it has none.
C15_PlaylistCut ==
    handed.path # "none"
       => IF \E k \in DOMAIN youtube_url : youtube_url[k] = "&list="
          THEN \E k \in DOMAIN youtube_url :
                  /\ youtube_url[k] = "&list="
                  /\ handed.url = SubSeq(youtube_url, 1, k - 1)
                  /\ \A i \in DOMAIN handed.url : handed.url[i] # "&list="
          ELSE handed.url = youtube_url

\* The worker has passed on a URL that had "&list=" twice.
C15_Witness ==
    /\ handed.path = "async"
    /\ youtube_url = <<"https://youtu.be/watch?v=abc", "&list=", "&list=">>
    /\ handed.url = <<"https://youtu.be/watch?v=abc">>

\* --------------------------------------------------------------- job status
Terminal == {"completed", "failed"}

\* The status of job j, "gone" when it has no record.
StatusOf(status, j) == IF j \in DOMAIN status THEN status[j].status ELSE "gone"

\* C16: a job's status moves only from 'started' to 'processing' and from there
\* to 'completed' or 'failed': a record in a terminal status has been in
\* 'processing', a record that leaves 'started' has been in 'processing' by the
\* end of that step, nothing returns to 'started', and a terminal status stays
\* as it is until the record is deleted.
C16_StatusOrder ==
    [][\A j \in JobIds :
          LET old == StatusOf(download_status, j)
              new == StatusOf(download_status', j)
          IN  /\ new \in Terminal => hist'[j].processed
              /\ (old = "started" /\ new \notin {"started", "gone"})
                    => hist'[j].processed /\ new \in {"processing", "failed"}
              /\ (old = "processing" /\ new # "gone")
                    => new \in {"processing"} \cup Terminal
              /\ (old \in Terminal /\ new # "gone") => new = old
              /\ old = "gone" => new \in {"gone", "started"}]_vars

\* A job has failed in the step in which its worker marked it 'processing', and
\* is still there after further steps of the server.
C16_Witness ==
    \E j \in JobIds :
        /\ StatusOf(download_status, j) = "failed"
        /\ download_status[j].message = "Server overloaded. Try again later."
        /\ hist[j].processed
        /\ download_status[j].age > 0

\* The error kind recorded on a job record; the records of the code have the
\* keys status, progress, message and created_at.
ErrorKindOf(rec) == IF "error_kind" \in DOMAIN rec THEN rec.error_kind ELSE "null"

\* C17: no exception leaves the worker, and a failed job carries a message and
\* an error kind.
C17_FailureRecorded ==
    \A j \in JobIds :
        /\ ~hist[j].escaped
        /\ StatusOf(download_status, j) = "failed"
              => /\ download_status[j].message # ""
                 /\ ErrorKindOf(download_status[j]) # "null"

\* ------------------------------------------- the rate limiter, by statement
\* app.run(threaded=True) serves each request in a thread of its own, and
\* decorated_function takes no lock: its statements interleave with those of
\* other requests.  Here every request comes from client 1 to
\* /download/audio/ultrafast, within one instant; a thread runs one request
\* after another.  Each step below is at least one whole statement of the code.
MaxCalls == 7

RaceClient == 1
RaceLimiter == UltrafastLimiter

ListOf(storage, c) == IF c \in DOMAIN storage THEN storage[c] ELSE <<>>

Assign(storage, c, list) ==
    [x \in DOMAIN storage \cup {c} |-> IF x = c THEN list ELSE storage[x]]

\* Calls of decorated_function begun so far.
Calls == admitted + Cardinality({t \in Threads : rl_pc[t] # "idle"})

RaceFrame ==
    UNCHANGED <<download_status, download_files, disk, active_downloads, worker,
                sync_inflight, timer, cleaners, sweep_in, next_job, hist, run,
                denial, pvars, verdict, youtube_url, handed, metrics, admission,
                sweep, counting, cleaning>>

\* The list comprehension is evaluated (or the client is found to be new).
RlPrune(t) ==
    /\ rl_pc[t] = "idle"
    /\ Calls < MaxCalls
    /\ rl_kept' = [rl_kept EXCEPT ![t] =
                      Prune(ListOf(rate_limit_storage, RaceClient), RaceLimiter.window)]
    /\ rl_pc' = [rl_pc EXCEPT ![t] = "assign"]
    /\ last' = NoResponse
    /\ UNCHANGED <<rate_limit_storage, admitted>>
    /\ RaceFrame

\* rate_limit_storage[client_ip] = ... with the list built before.
RlAssign(t) ==
    /\ rl_pc[t] = "assign"
    /\ rate_limit_storage' = Assign(rate_limit_storage, RaceClient, rl_kept[t])
    /\ rl_pc' = [rl_pc EXCEPT ![t] = "check"]
    /\ last' = NoResponse
    /\ UNCHANGED <<rl_kept, admitted>>
    /\ RaceFrame

\* if len(rate_limit_storage[client_ip]) >= max_requests: return ..., 429
RlCheck(t) ==
    /\ rl_pc[t] = "check"
    /\ IF Len(ListOf(rate_limit_storage, RaceClient)) >= RaceLimiter.max_requests
       THEN /\ rl_pc' = [rl_pc EXCEPT ![t] = "idle"]
            /\ last' = [Response("ultrafast", RaceClient, 0, 429)
                           EXCEPT !.retry_after = RaceLimiter.window]
       ELSE /\ rl_pc' = [rl_pc EXCEPT ![t] = "append"]
            /\ last' = NoResponse
    /\ UNCHANGED <<rate_limit_storage, rl_kept, admitted>>
    /\ RaceFrame

\* rate_limit_storage[client_ip].append(now); the request goes on to the view.
RlAppend(t) ==
    /\ rl_pc[t] = "append"
    /\ rate_limit_storage' =
           Assign(rate_limit_storage, RaceClient,
                  Append(ListOf(rate_limit_storage, RaceClient),
                         Stamp(RaceLimiter.name)))
    /\ admitted' = admitted + 1
    /\ rl_pc' = [rl_pc EXCEPT ![t] = "idle"]
    /\ last' = NoResponse
    /\ UNCHANGED rl_kept
    /\ RaceFrame

RaceNext == \E t \in Threads : RlPrune(t) \/ RlAssign(t) \/ RlCheck(t) \/ RlAppend(t)

RaceSpec == Init /\ [][RaceNext]_vars

\* C18: whatever the interleaving of one client's requests, the requests
\* admitted within one window are no more than the limit, and the timestamp of
\* each of them is in the client's list.  (No time passes in RaceSpec, so all
\* requests fall in one window and no timestamp expires.)
C18_AtomicLimiter ==
    /\ admitted <= RaceLimiter.max_requests
    /\ admitted <= Len(ListOf(rate_limit_storage, RaceClient))

\* ------------------------------------------------ the admission check alone
\* Memory readings in percent, free disk in tenths of a GB; -1: psutil raised.
\* mem2 is what psutil.virtual_memory() would read after the forced sweep (the
\* code does not read it), d2 the disk reading after the sweep; age is the age
\* of the one job the table holds.
AdmitMetrics ==
    [active : 0..(MAX_CONCURRENT_DOWNLOADS + 1), mem : {-1, 50, 85},
     mem2 : {50, 85}, d1 : {-1, 1, 3, 6}, d2 : {-1, 1, 3, 6},
     age : {FORCE_AGE, FORCE_AGE + 1}]

\* The job table of the check: job 1, completed, with its file.
AdmitStore(m) ==
    [status |-> [j \in {1} |-> [status |-> "completed",
                                message |-> "Download completed successfully",
                                age |-> m.age]],
     files |-> {1}, disk |-> {1}]

AdmitInit ==
    /\ InitServer
    /\ youtube_url = <<>>
    /\ handed = NoHanded
    /\ metrics \in AdmitMetrics
    /\ admission = NoAdmission

\* check_system_resources runs with the counter and the readings of metrics.
Admit ==
    /\ LET adm == check_system_resources(AdmitStore(metrics), metrics.active,
                                         metrics.mem, metrics.d1, metrics.d2)
       IN  admission' = [done |-> TRUE, ok |-> adm.ok, why |-> adm.why,
                         jobs |-> DOMAIN adm.store.status]
    /\ UNCHANGED <<svars, pvars, verdict, youtube_url, handed, metrics, rvars,
                   sweep, counting, cleaning>>

AdmitNext == Admit

AdmitSpec == AdmitInit /\ [][AdmitNext]_vars

\* The disk check finds enough room: 0.5 GB free, or 0.2 GB after the sweep.
DiskPasses(m) ==
    /\ m.d1 # -1
    /\ m.d1 >= DISK_SOFT \/ (m.d2 # -1 /\ m.d2 >= DISK_HARD)

\* A psutil.disk_usage call of the disk check raises.
DiskRaises(m) == m.d1 = -1 \/ (m.d1 < DISK_SOFT /\ m.d2 = -1)

\* C20: when the memory reading raises, the request is admitted if the counter
\* is below the ceiling and the disk check passes (or raises too); when a disk
\* reading raises, it is admitted if the counter is below the ceiling and
\* memory is not high.
C20_FailOpen ==
    admission.done
       => /\ (/\ metrics.mem = -1
              /\ metrics.active < MAX_CONCURRENT_DOWNLOADS
              /\ DiskPasses(metrics) \/ DiskRaises(metrics))
                => admission.ok
          /\ (/\ DiskRaises(metrics)
              /\ metrics.active < MAX_CONCURRENT_DOWNLOADS
              /\ metrics.mem <= MEM_LIMIT)
                => admission.ok

\* The check has admitted a request for which the memory reading raised and
\* the second disk reading raised after a low first one.
C20_Witness ==
    /\ admission.done /\ admission.ok
    /\ metrics.mem = -1
    /\ metrics.d1 = 3 /\ metrics.d2 = -1

\* ------------------------------------------------------ requests turned away
\* The request handlers with a client whose window is followed and every kind
\* of body, next to the extractions they start; no time passes.
FrameNext ==
    \/ \E c \in Clients, ep \in SyncRoutes : SyncRequest(c, ep, Bodies)
    \/ \E outcome \in Outcomes : SyncEnd(outcome)
    \/ \E c \in Clients : AsyncRequest(c, Bodies)
    \/ \E j \in JobIds :
          \/ WorkerBegin(j)
          \/ WorkerProxy(j)
          \/ \E outcome \in Outcomes : WorkerEnd(j, outcome)

FrameSpec == Init /\ [][FrameNext]_vars

\* The step answered a request with a refusal of the server's own.
Rejected == last'.ep \in Routes /\ last'.code \in {429, 503, 400}

\* C19: a request the server refuses by itself (rate limit 429, admission 503,
\* body or URL 400) leaves the counter, the job ids, the job records, the
\* workers and the extractions in flight as they were, and calls neither
\* get_working_proxy nor ydl.download.
C19_RejectedDoesNothing ==
    [][Rejected
          => /\ active_downloads' = active_downloads
             /\ next_job' = next_job
             /\ DOMAIN download_status' \subseteq DOMAIN download_status
             /\ worker' = worker
             /\ sync_inflight' = sync_inflight
             /\ pvars' = pvars
             /\ last'.called = {}]_vars

\* A request has been answered 400 while an extraction was in flight and the
\* client's list held as many timestamps as the ultrafast limit, or more.
C19_Witness ==
    /\ last.ep \in Routes
    /\ last.code = 400
    /\ sync_inflight > 0
    /\ active_downloads > 0
    /\ \E c \in Clients :
          Len(ListOf(rate_limit_storage, c)) >= ULTRAFAST_MAX_REQUESTS

\* C21: a request that meets memory above the threshold is admitted when memory
\* reads at or below that threshold after the forced sweep (hence below any
\* harder one), the counter being below the ceiling and the disk having room.
C21_MemoryRecheck ==
    (/\ admission.done
     /\ metrics.active < MAX_CONCURRENT_DOWNLOADS
     /\ metrics.mem > MEM_LIMIT
     /\ metrics.mem2 <= MEM_LIMIT
     /\ metrics.d1 >= DISK_SOFT)
       => admission.ok

\* C22: when the first disk reading is below 0.5 GB the forced sweep runs (a
\* job older than 300 s is gone, a younger one stays) and the request is
\* rejected if and only if the second reading is below 0.2 GB; no request is
\* rejected for disk space otherwise.
C22_DiskRecheck ==
    admission.done
       => /\ (/\ metrics.active < MAX_CONCURRENT_DOWNLOADS
              /\ metrics.mem <= MEM_LIMIT
              /\ metrics.d1 # -1 /\ metrics.d1 < DISK_SOFT
              /\ metrics.d2 # -1)
                => /\ admission.ok <=> metrics.d2 >= DISK_HARD
                   /\ ~admission.ok => admission.why = "disk"
                   /\ admission.jobs = IF metrics.age > FORCE_AGE THEN {} ELSE {1}
          /\ (~admission.ok /\ admission.why = "disk")
                => /\ metrics.d1 # -1 /\ metrics.d1 < DISK_SOFT
                   /\ metrics.d2 # -1 /\ metrics.d2 < DISK_HARD

\* A request has been admitted with 0.3 GB free before and after the sweep,
\* which removed the old job.
C22_Witness ==
    /\ admission.done /\ admission.ok
    /\ metrics.d1 = 3 /\ metrics.d2 = 3
    /\ metrics.age > FORCE_AGE
    /\ admission.jobs = {}

\* ------------------------------------------------------- the rotation pass
\* get_working_proxy of the second snapshot on lists longer than a pass.
MaxList == 6

Hosts == <<"10.0.0.1", "10.0.0.2", "10.0.0.3", "10.0.0.4", "10.0.0.5",
           "10.0.0.6", "10.0.0.7", "10.0.0.8">>

\* A list of n candidates as a refresh leaves it.
Candidates(n) == [i \in 1..n |-> Format(<<Hosts[i], ":", "8080">>)]

\* The server with no candidates yet, or after a refresh that found some.
RotateInit ==
    /\ InitTable
    /\ \E n \in 0..MaxList :
          /\ proxy_list = Candidates(n)
          /\ proxy_last_updated = IF n = 0 THEN ProxyAgeCap ELSE 0
    /\ current_proxy_index = 0
    /\ fetch_started = FALSE
    /\ youtube_url = <<>>
    /\ handed = NoHanded
    /\ metrics = NoMetrics
    /\ admission = NoAdmission

RotateNext ==
    \/ \E working \in SUBSET Range(proxy_list) : get_working_proxy_rotating(working)
    \/ \E d \in ProxySteps : ProxyTick(d)

RotateSpec == RotateInit /\ [][RotateNext]_vars

Rotated == got.op = "get_working_proxy_rotating"

\* C23: a call probes no more than 5 candidates and no more than the list
\* holds, one after the other from the candidate after the cursor it found; it
\* stops at the first that answers and returns it; it returns None after a
\* full pass without answer; and it leaves the cursor on the last candidate
\* probed, so that the next call begins with the one after.
C23_RotationPass ==
    Rotated
       => LET n == Len(got.kept)
              k == Len(got.probed)
          IN  /\ k <= PROBE_LIMIT /\ k <= n
              /\ \A i \in 1..k :
                    got.probed[i] = got.kept[((got.start + i) % n) + 1]
              /\ \A i \in 1..(k - 1) : got.probed[i] \notin got.working
              /\ got.value # None
                    => /\ k >= 1
                       /\ got.value = got.probed[k]
                       /\ got.value \in got.working
              /\ got.value = None
                    => /\ k = Min(PROBE_LIMIT, n)
                       /\ k >= 1 => got.probed[k] \notin got.working
              /\ n > 0 => current_proxy_index = (got.start + k) % n

\* A second call on six candidates has probed five of them from where the first
\* had stopped, round the end of the list, and has returned the fifth.
C23_Witness ==
    /\ Rotated
    /\ Len(got.kept) = 6
    /\ got.start = 4
    /\ Len(got.probed) = 5
    /\ got.value = got.kept[4]

\* C24: a call that finds no candidates, or no answer from those it probes,
\* returns None without raising, and its caller sets no 'proxy' option.
C24_NoneWhenNothingUsable ==
    (Rotated /\ (got.kept = <<>> \/ Range(got.probed) \cap got.working = {}))
       => /\ got.value = None
          /\ ~got.raised
          /\ "proxy" \notin got.opts

\* A call has returned None after five probes although a candidate it did not
\* reach would have answered.
C24_Witness ==
    /\ Rotated
    /\ Len(got.probed) = PROBE_LIMIT
    /\ got.working # {}
    /\ got.value = None
    /\ "proxy" \notin got.opts

\* C26: a proxy set as the 'proxy' option of an extraction has passed
\* test_proxy in the call that returned it.
C26_OnlyProbedProxies ==
    (got.op \in {"get_working_proxy", "get_working_proxy_rotating"}
        /\ "proxy" \in got.opts)
       => got.value \in got.passed

\* ------------------------------------------- a refresh during a rotation pass
\* get_working_proxy (second snapshot) and fetch_proxies_from_github statement
\* by statement, each in a thread of its own.

\* 'with proxy_lock:' may be entered.
Acquirable_always == TRUE

Acquirable == swap.lock = "free"

SwapFrame == UNCHANGED <<svars, fvars, verdict, current_proxy, proxy_last_fetched, got>>

\* The staleness check, which may start a refresh thread.
GetEnter ==
    /\ swap.get_pc = "idle"
    /\ fetch_started' =
           (fetch_started \/ proxy_last_updated > proxy_update_interval)
    /\ swap' = [swap EXCEPT !.get_pc = "empty", !.probes = 0]
    /\ UNCHANGED <<proxy_list, current_proxy_index, proxy_last_updated>>
    /\ SwapFrame

\* 'if not proxy_list: return None', read without the lock.
GetEmpty ==
    /\ swap.get_pc = "empty"
    /\ swap' = [swap EXCEPT !.get_pc = IF proxy_list = <<>> THEN "idle" ELSE "lock"]
    /\ UNCHANGED <<proxy_list, current_proxy_index, proxy_last_updated,
                   fetch_started>>
    /\ SwapFrame

\* 'with proxy_lock:' and the evaluation of range(min(5, len(proxy_list))).
GetLock ==
    /\ swap.get_pc = "lock"
    /\ Acquirable
    /\ LET n == Min(PROBE_LIMIT, Len(proxy_list))
       IN  swap' = [swap EXCEPT !.lock = IF n = 0 THEN "free" ELSE "get",
                                !.get_pc = IF n = 0 THEN "idle" ELSE "advance",
                                !.left = n, !.seen = proxy_list]
    /\ UNCHANGED <<proxy_list, current_proxy_index, proxy_last_updated,
                   fetch_started>>
    /\ SwapFrame

\* current_proxy_index = (current_proxy_index + 1) % len(proxy_list)
GetAdvance ==
    /\ swap.get_pc = "advance"
    /\ IF proxy_list = <<>>
       THEN /\ swap' = [swap EXCEPT !.get_pc = "idle", !.raised = TRUE,
                                    !.lock = "free"]
            /\ UNCHANGED current_proxy_index
       ELSE /\ current_proxy_index' = (current_proxy_index + 1) % Len(proxy_list)
            /\ swap' = [swap EXCEPT !.get_pc = "read"]
    /\ UNCHANGED <<proxy_list, proxy_last_updated, fetch_started>>
    /\ SwapFrame

\* proxy = proxy_list[current_proxy_index], then test_proxy, which answers ok.
GetRead(ok) ==
    /\ swap.get_pc = "read"
    /\ IF current_proxy_index >= Len(proxy_list)
       THEN swap' = [swap EXCEPT !.get_pc = "idle", !.raised = TRUE,
                                 !.lock = "free"]
       ELSE IF ok \/ swap.left = 1
            THEN swap' = [swap EXCEPT !.get_pc = "idle", !.lock = "free",
                                      !.left = 0, !.probes = @ + 1]
            ELSE swap' = [swap EXCEPT !.get_pc = "advance", !.left = @ - 1,
                                      !.probes = @ + 1]
    /\ UNCHANGED <<proxy_list, current_proxy_index, proxy_last_updated,
                   fetch_started>>
    /\ SwapFrame

\* The head of fetch_proxies_from_github up to random.shuffle.
FetchGather(a1, a2) ==
    /\ swap.fetch_pc = "idle"
    /\ LET new == new_proxies(a1, a2)
       IN  IF new # <<>>
           THEN \E unique_proxies \in Orders(Range(new)) :
                   swap' = [swap EXCEPT !.fetch_pc = "swap",
                                        !.unique = unique_proxies]
           ELSE swap' = [swap EXCEPT !.unique = <<>>]
    /\ fetch_started' = FALSE
    /\ UNCHANGED <<proxy_list, current_proxy_index, proxy_last_updated>>
    /\ SwapFrame

\* 'with proxy_lock:' and proxy_list = unique_proxies
FetchSwap ==
    /\ swap.fetch_pc = "swap"
    /\ Acquirable
    /\ proxy_list' = swap.unique
    /\ swap' = [swap EXCEPT !.lock = "fetch", !.fetch_pc = "stamp"]
    /\ UNCHANGED <<current_proxy_index, proxy_last_updated, fetch_started>>
    /\ SwapFrame

\* proxy_last_updated = time.time(), and the end of the with block.
FetchStamp ==
    /\ swap.fetch_pc = "stamp"
    /\ proxy_last_updated' = 0
    /\ swap' = [swap EXCEPT !.lock = "free", !.fetch_pc = "idle"]
    /\ UNCHANGED <<proxy_list, current_proxy_index, fetch_started>>
    /\ SwapFrame

\* Time passes between the statements.
SwapTick(d) ==
    /\ proxy_last_updated' = Older(proxy_last_updated, d, ProxyAgeCap)
    /\ proxy_last_updated' # proxy_last_updated
    /\ UNCHANGED <<proxy_list, current_proxy_index, fetch_started, swap>>
    /\ SwapFrame

SwapNext ==
    \/ GetEnter
    \/ GetEmpty
    \/ GetLock
    \/ GetAdvance
    \/ \E ok \in BOOLEAN : GetRead(ok)
    \/ \E a1 \in Answers, a2 \in Answers : FetchGather(a1, a2)
    \/ FetchSwap
    \/ FetchStamp
    \/ \E d \in ProxySteps : SwapTick(d)

SwapSpec == Init /\ [][SwapNext]_vars

\* The get thread is inside its 'with proxy_lock:' block.
InPass == swap.get_pc \in {"advance", "read"}

\* C25: whatever the interleaving of a refresh with a get, the list is the one
\* the get found when it entered its pass for as long as the pass lasts (all of
\* the old list or all of the new one), the cursor is inside the list whenever
\* a candidate is read, and no read has raised.
C25_AtomicSwap ==
    /\ InPass => proxy_list = swap.seen
    /\ swap.get_pc = "read" => current_proxy_index < Len(proxy_list)
    /\ ~swap.raised

\* A refresh holding a shorter list waits for the lock while the get thread,
\* one probe into its pass over two candidates, is about to read the second.
C25_Witness ==
    /\ swap.get_pc = "read"
    /\ swap.probes = 1
    /\ current_proxy_index = 1
    /\ swap.fetch_pc = "swap"
    /\ Len(swap.unique) = 1
    /\ swap.lock = "get"

\* ------------------------------------------------------------ what a sweep takes
\* This step deletes the record of job j, and the history puts it down to who.
Swept(j, who) ==
    /\ j \in DOMAIN download_status
    /\ j \notin DOMAIN download_status'
    /\ hist'[j].deleted_by = who

\* This step is the sweep of periodic_cleanup.
PeriodicSweep == sweep_in = 0 /\ sweep_in' = SWEEP_PERIOD

\* C27: a normal sweep deletes the jobs created more than 1800 s ago and a
\* forced sweep those created more than 300 s ago, each with its file entry
\* and its directory; a job that is not older than the threshold keeps its
\* record, its file entry and its directory.
C27_SweepByAge ==
    [][\A j \in JobIds :
          /\ Swept(j, "sweep")
                => /\ download_status[j].age > MAX_AGE
                   /\ j \notin download_files'
                   /\ j \notin disk'
          /\ Swept(j, "forced sweep")
                => /\ download_status[j].age > FORCE_AGE
                   /\ j \notin download_files'
                   /\ j \notin disk'
          /\ (PeriodicSweep /\ j \in DOMAIN download_status)
                => IF download_status[j].age > MAX_AGE
                   THEN j \notin DOMAIN download_status'
                   ELSE /\ j \in DOMAIN download_status'
                        /\ download_status'[j] = download_status[j]
                        /\ (j \in download_files') = (j \in download_files)
                        /\ (j \in disk') = (j \in disk)]_vars

\* C28: a sweep, normal or forced, deletes the record of a job only when the
\* job is completed or failed, never while it is queued or processing.
C28_SweepsTerminalOnly ==
    [][\A j \in JobIds :
          (Swept(j, "sweep") \/ Swept(j, "forced sweep"))
             => download_status[j].status \in {"completed", "failed"}]_vars

\* ------------------------------------------ a sweep among the other threads
\* cleanup_old_downloads loop by loop, with the threads that insert into the
\* job table and delete from it running between its steps.
MaxTable == 2

TableFrame ==
    UNCHANGED <<rate_limit_storage, active_downloads, worker, sync_inflight, timer,
                cleaners, sweep_in, last, hist, run, denial, pvars, verdict,
                youtube_url, handed, metrics, admission, rvars, counting,
                cleaning>>

\* current_time = time.time(), to_delete = [], and the iterator over
\* download_status.items(), which notes the size of the table.
SweepBegin(force) ==
    /\ sweep.pc = "idle"
    /\ sweep' = [NoSweep EXCEPT !.pc = "iter", !.force = force,
                                !.used = Cardinality(DOMAIN download_status)]
    /\ UNCHANGED <<download_status, download_files, disk, next_job>>
    /\ TableFrame

\* One turn of the first loop.  The iterator raises RuntimeError when the size
\* of the table is not the one it noted; the except clause of the function
\* logs it, and the function returns.
SweepVisit ==
    /\ sweep.pc = "iter"
    /\ LET age_limit == IF sweep.force THEN FORCE_AGE ELSE MAX_AGE
           rest == DOMAIN download_status \ sweep.visited
       IN  IF Cardinality(DOMAIN download_status) # sweep.used
           THEN sweep' = [NoSweep EXCEPT !.force = sweep.force, !.aborted = TRUE]
           ELSE IF rest = {} \/ Cardinality(sweep.visited) = sweep.used
           THEN sweep' = [sweep EXCEPT !.pc = IF sweep.to_delete = {} THEN "idle"
                                              ELSE "delete"]
           ELSE \E j \in rest :
                   sweep' = [sweep EXCEPT
                                !.visited = @ \cup {j},
                                !.to_delete = IF download_status[j].age > age_limit
                                              THEN @ \cup {j} ELSE @]
    /\ UNCHANGED <<download_status, download_files, disk, next_job>>
    /\ TableFrame

\* One turn of the second loop: cleanup_download(job_id, silent=True).
SweepDelete ==
    /\ sweep.pc = "delete"
    /\ \E j \in sweep.to_delete :
          /\ SetStore(cleanup_download(Store, j))
          /\ sweep' = [sweep EXCEPT !.to_delete = @ \ {j},
                                    !.pc = IF sweep.to_delete = {j} THEN "idle"
                                           ELSE "delete"]
    /\ UNCHANGED next_job
    /\ TableFrame

\* download_audio_async puts the record of a new job into the table.
TableInsert ==
    /\ next_job < MaxTable
    /\ next_job' = next_job + 1
    /\ download_status' =
           [x \in DOMAIN download_status \cup {next_job + 1} |->
               IF x = next_job + 1
               THEN [status |-> "started", message |-> "Download queued", age |-> 0]
               ELSE download_status[x]]
    /\ UNCHANGED <<download_files, disk, sweep>>
    /\ TableFrame

\* The worker of job j registers its file and marks the job completed.
TableComplete(j) ==
    /\ j \in DOMAIN download_status
    /\ download_status[j].status = "started"
    /\ download_files' = download_files \cup {j}
    /\ disk' = disk \cup {j}
    /\ download_status' = Update(download_status, j, "completed",
                                 "Download completed successfully")
    /\ UNCHANGED <<next_job, sweep>>
    /\ TableFrame

\* cleanup_download(j) in a Timer thread, a post-fetch cleanup thread or
\* another sweep.
TableDelete(j) ==
    /\ j \in DOMAIN download_status
    /\ SetStore(cleanup_download(Store, j))
    /\ UNCHANGED <<next_job, sweep>>
    /\ TableFrame

\* d seconds pass while no sweep is running (a sweep compares every record
\* with the one current_time it read when it began).
TableTick(d) ==
    /\ sweep.pc = "idle"
    /\ download_status' =
           [j \in DOMAIN download_status |->
               [download_status[j] EXCEPT !.age = Older(@, d, JobAgeCap)]]
    /\ download_status' # download_status
    /\ UNCHANGED <<download_files, disk, next_job, sweep>>
    /\ TableFrame

TableNext ==
    \/ \E force \in BOOLEAN : SweepBegin(force)
    \/ SweepVisit
    \/ SweepDelete
    \/ TableInsert
    \/ \E j \in 1..MaxTable : TableComplete(j)
    \/ \E j \in 1..MaxTable : TableDelete(j)
    \/ \E d \in Steps : TableTick(d)

TableSpec == Init /\ [][TableNext]_vars

\* C29: while a sweep iterates over the job table no record is inserted or
\* deleted, no sweep ends in its except clause, and a sweep that ends leaves
\* no record older than its threshold.
C29_SweepAlone ==
    [][/\ sweep.pc = "iter" => DOMAIN download_status' = DOMAIN download_status
       /\ ~sweep'.aborted
       /\ (sweep.pc # "idle" /\ sweep'.pc = "idle")
             => \A j \in DOMAIN download_status' :
                   download_status'[j].age
                      <= (IF sweep.force THEN FORCE_AGE ELSE MAX_AGE)]_vars

\* ------------------------------------------------- the size of the limiter's table
\* The rate limiter next to the periodic_cleanup thread.
RateSweepNext ==
    \/ RateNext
    \/ periodic_cleanup

\* Time passes, and the sleeping periodic_cleanup thread is scheduled when its
\* sleep is over; no client is obliged to send anything.
FairRateSpec ==
    /\ Init
    /\ [][RateSweepNext]_vars
    /\ WF_vars(\E d \in Steps : Tick(d))
    /\ WF_vars(periodic_cleanup)

\* Every request client c has recorded is older than every limiter's window.
WindowEmpty(c) ==
    /\ c \in DOMAIN rate_limit_storage
    /\ \A i \in 1..Len(rate_limit_storage[c]) :
          rate_limit_storage[c][i].age >= StampCap

\* C30: a client whose recorded requests are all older than the window is
\* eventually taken out of rate_limit_storage, unless it sends a request
\* before that.
C30_EmptyWindowRemoved ==
    \A c \in Clients :
        WindowEmpty(c) ~> (c \notin DOMAIN rate_limit_storage \/ ~WindowEmpty(c))

\* ------------------------------------------------- the counter of extractions
\* 'active_downloads += 1' and 'active_downloads -= 1' as the load and the
\* store they are, in the request threads of the sync endpoints and in the
\* worker threads alike.
MaxBegun == 2

CounterFrame ==
    UNCHANGED <<rate_limit_storage, download_status, download_files, disk, worker,
                sync_inflight, timer, cleaners, sweep_in, next_job, last, hist, run,
                denial, pvars, verdict, youtube_url, handed, metrics, admission,
                rvars, sweep, cleaning>>

\* The load of 'active_downloads += 1'.
IncLoad(t) ==
    /\ counting[t].pc = "idle"
    /\ counting[t].began < MaxBegun
    /\ counting' = [counting EXCEPT ![t] = [pc |-> "inc", loaded |-> active_downloads,
                                           began |-> @.began + 1]]
    /\ UNCHANGED active_downloads
    /\ CounterFrame

\* Its store; the thread goes on into its try block.
IncStore(t) ==
    /\ counting[t].pc = "inc"
    /\ active_downloads' = counting[t].loaded + 1
    /\ counting' = [counting EXCEPT ![t].pc = "inside"]
    /\ CounterFrame

\* The try block is left, by a return or by an exception: the finally block
\* begins with the load of 'active_downloads -= 1'.
DecLoad(t) ==
    /\ counting[t].pc = "inside"
    /\ counting' = [counting EXCEPT ![t].pc = "dec", ![t].loaded = active_downloads]
    /\ UNCHANGED active_downloads
    /\ CounterFrame

\* Its store.
DecStore(t) ==
    /\ counting[t].pc = "dec"
    /\ active_downloads' = counting[t].loaded - 1
    /\ counting' = [counting EXCEPT ![t].pc = "idle"]
    /\ CounterFrame

CounterNext ==
    \/ \E t \in Threads : IncLoad(t)
    \/ \E t \in Threads : IncStore(t)
    \/ \E t \in Threads : DecLoad(t)
    \/ \E t \in Threads : DecStore(t)

CounterSpec == Init /\ [][CounterNext]_vars

\* The threads that have incremented the counter and not yet decremented it.
Counted_in == {t \in Threads : counting[t].pc \in {"inside", "dec"}}

\* C31: active_downloads is the number of extractions that have incremented
\* it and not yet decremented it, under every interleaving; it is never
\* negative, and 0 when no extraction is in flight.
C31_CounterExact ==
    /\ active_downloads = Cardinality(Counted_in)
    /\ active_downloads >= 0

\* ------------------------------------------------------------ files and records
\* C32: every job with a registered result file has a status record, by which
\* a sweep can find the job and delete the file.
C32_FilesHaveRecords == download_files \subseteq DOMAIN download_status

\* ------------------------------------------------------ one check per request
\* The number of timestamps recorded for client c.
Recorded(storage, c) == IF c \in DOMAIN storage THEN Len(storage[c]) ELSE 0

\* C33: a request that the limiter lets through leaves at most one timestamp
\* more than its client had, on every route; and on /download/audio and
\* /download/audio/fast none of the first 10 requests a client sends within
\* the window is denied.
C33_OneStampPerRequest ==
    [][\A c \in Clients :
          /\ (last'.ep \in Routes /\ last'.client = c /\ last'.code # 429)
                => Recorded(rate_limit_storage', c)
                      <= Recorded(rate_limit_storage, c) + 1
          /\ (run'[c].ep \in {"audio", "fast"}
                 /\ run'[c].span < DefaultLimiter.window
                 /\ run'[c].n <= DefaultLimiter.max_requests)
                => run'[c].denied = 0]_vars

\* ------------------------------------------------------- the end of a job
\* The worker threads are scheduled, and ydl.download returns or raises.
FairWorkerSpec ==
    /\ Spec
    /\ \A j \in JobIds :
          /\ WF_vars(WorkerBegin(j))
          /\ WF_vars(WorkerProxy(j))
          /\ WF_vars(\E o \in Outcomes : WorkerEnd(j, o))

\* Job j has a record that says 'started' or 'processing'.
Unfinished(j) == StatusOf(download_status, j) \in {"started", "processing"}

\* C34: a job whose record says 'started' or 'processing' eventually is
\* 'completed' or 'failed' unless its record is deleted first, and a worker
\* thread that has been started eventually ends.
C34_JobsEnd ==
    \A j \in JobIds :
        /\ Unfinished(j) ~> ~Unfinished(j)
        /\ (worker[j] = "spawned") ~> (worker[j] = "done")

\* The worker of a job has ended after a failed download, and the record of
\* the job says 'failed'.
C34_Witness ==
    \E j \in JobIds :
        /\ worker[j] = "done"
        /\ StatusOf(download_status, j) = "failed"
        /\ download_status[j].message # "Server overloaded. Try again later."

\* ------------------------------------------------ one classification, two paths
\* C35: the except clause of the sync handler and that of the worker put a
\* message in the same class: rate limited when it contains "429" or "too many
\* requests", else unavailable when it contains "unavailable", "private" or
\* "deleted", else unclassified.
C35_SameClasses ==
    [][Raising
          => LET text == lower(last'.raised)
                 limited == Contains(text, "429") \/ Contains(text, "too many requests")
                 missing == \/ Contains(text, "unavailable")
                            \/ Contains(text, "private")
                            \/ Contains(text, "deleted")
             IN  /\ limited => last'.kind = "err429"
                 /\ (~limited /\ missing) => last'.kind = "errunavailable"
                 /\ (~limited /\ ~missing) => last'.kind = "errother"]_vars

\* A message that says both "deleted" and "429" has been classified as rate
\* limiting by the worker after the sync handler had classified it so.
C35_Witness ==
    /\ last.raised = <<"This video has been ", "deleted", " (HTTP Error ", "429", ")">>
    /\ PathOf(last) = "async"
    /\ last.kind = "err429"
    /\ verdict.msg = last.raised
    /\ verdict.path = "sync"
    /\ verdict.kind = "err429"

\* ------------------------------------------------ cleanup_download, called twice
\* cleanup_download statement by statement in concurrent threads (the Timer of
\* a completed job, post-fetch cleanup threads, sweeps), on a table that the
\* workers have finished writing to.  cleaning[t].did holds the jobs for which
\* a call of thread t has returned.
CleanFrame ==
    UNCHANGED <<rate_limit_storage, active_downloads, worker, sync_inflight, timer,
                cleaners, sweep_in, next_job, last, hist, run, denial, pvars,
                verdict, youtube_url, handed, metrics, admission, rvars, sweep,
                counting>>

\* No call of cleanup_download has begun.
Untouched == \A t \in Threads : cleaning[t].pc = "idle" /\ cleaning[t].did = {}

\* Jobs are submitted and completed before the calls that are followed.
Populate ==
    /\ Untouched
    /\ \/ TableInsert
       \/ \E j \in 1..MaxTable : TableComplete(j)

\* The function returns in thread t.
Returned(f, t) == [f EXCEPT ![t].pc = "idle", ![t].did = @ \cup {f[t].job}]

\* A function without its try block: the exception leaves it.
Caught_nowhere(f, t) == [Returned(f, t) EXCEPT ![t].raised = TRUE]

\* 'except Exception as e:' with silent=True: the function returns.
Caught(f, t) == Returned(f, t)

\* cleanup_download(j, silent=True) is called in thread t; j is the id of a
\* job that has been submitted, or an id that no job has.
CleanCall(t, j) ==
    /\ cleaning[t].pc = "idle"
    /\ j <= next_job \/ j = MaxTable + 1
    /\ cleaning' = [cleaning EXCEPT ![t].pc = "in_files", ![t].job = j]
    /\ UNCHANGED <<download_status, download_files, disk>>
    /\ CleanFrame

\* if job_id in download_files:
CleanInFiles(t) ==
    /\ cleaning[t].pc = "in_files"
    /\ cleaning' = [cleaning EXCEPT ![t].pc =
                       IF cleaning[t].job \in download_files THEN "path"
                       ELSE "in_status"]
    /\ UNCHANGED <<download_status, download_files, disk>>
    /\ CleanFrame

\* file_path = download_files[job_id]
CleanPath(t) ==
    /\ cleaning[t].pc = "path"
    /\ cleaning' = IF cleaning[t].job \in download_files
                   THEN [cleaning EXCEPT ![t].pc = "rmtree"]
                   ELSE Caught(cleaning, t)
    /\ UNCHANGED <<download_status, download_files, disk>>
    /\ CleanFrame

\* if os.path.exists(file_path): shutil.rmtree(parent_dir, ignore_errors=True)
CleanRmtree(t) ==
    /\ cleaning[t].pc = "rmtree"
    /\ disk' = disk \ {cleaning[t].job}
    /\ cleaning' = [cleaning EXCEPT ![t].pc = "del_file"]
    /\ UNCHANGED <<download_status, download_files>>
    /\ CleanFrame

\* del download_files[job_id]
CleanDelFile(t) ==
    /\ cleaning[t].pc = "del_file"
    /\ IF cleaning[t].job \in download_files
       THEN /\ download_files' = download_files \ {cleaning[t].job}
            /\ cleaning' = [cleaning EXCEPT ![t].pc = "in_status"]
       ELSE /\ cleaning' = Caught(cleaning, t)
            /\ UNCHANGED download_files
    /\ UNCHANGED <<download_status, disk>>
    /\ CleanFrame

\* if job_id in download_status:
CleanInStatus(t) ==
    /\ cleaning[t].pc = "in_status"
    /\ cleaning' = IF cleaning[t].job \in DOMAIN download_status
                   THEN [cleaning EXCEPT ![t].pc = "del_status"]
                   ELSE Returned(cleaning, t)
    /\ UNCHANGED <<download_status, download_files, disk>>
    /\ CleanFrame

\* del download_status[job_id]
CleanDelStatus(t) ==
    /\ cleaning[t].pc = "del_status"
    /\ IF cleaning[t].job \in DOMAIN download_status
       THEN /\ download_status' = Without(download_status, cleaning[t].job)
            /\ cleaning' = Returned(cleaning, t)
       ELSE /\ cleaning' = Caught(cleaning, t)
            /\ UNCHANGED download_status
    /\ UNCHANGED <<download_files, disk>>
    /\ CleanFrame

CleanNext ==
    \/ Populate
    \/ \E t \in Threads, j \in 1..(MaxTable + 1) : CleanCall(t, j)
    \/ \E t \in Threads : CleanInFiles(t)
    \/ \E t \in Threads : CleanPath(t)
    \/ \E t \in Threads : CleanRmtree(t)
    \/ \E t \in Threads : CleanDelFile(t)
    \/ \E t \in Threads : CleanInStatus(t)
    \/ \E t \in Threads : CleanDelStatus(t)

CleanSpec == Init /\ [][CleanNext]_vars

\* A call of cleanup_download for job j is under way.
Cleaning(j) == \E t \in Threads : cleaning[t].pc # "idle" /\ cleaning[t].job = j

\* C36: no call of cleanup_download raises; once the calls for a job have
\* returned, one or several, one after the other or interleaved, the job is
\* in neither table and its directory is gone; and a call changes nothing of
\* any other job, nor anything at all when its job is in neither table.
C36_CleanupIdempotent ==
    [][/\ \A t \in Threads : ~cleaning'[t].raised
       /\ \A t \in Threads : \A j \in cleaning'[t].did :
             ~Cleaning(j)'
                => /\ j \notin DOMAIN download_status'
                   /\ j \notin download_files'
                   /\ j \notin disk'
       /\ ~Untouched
             => \A k \in 1..(MaxTable + 1) :
                   \/ Cleaning(k)
                   \/ /\ (k \in DOMAIN download_status') = (k \in DOMAIN download_status)
                      /\ k \in DOMAIN download_status
                            => download_status'[k] = download_status[k]
                      /\ (k \in download_files') = (k \in download_files)
                      /\ (k \in disk') = (k \in disk)]_vars

\* Both threads have returned from a call for completed job 1, which is in
\* neither table, and completed job 2 is still in both.
C36_Witness ==
    /\ \A t \in Threads : cleaning[t].pc = "idle" /\ cleaning[t].did = {1}
    /\ 1 \notin DOMAIN download_status
    /\ 1 \notin download_files
    /\ 2 \in download_files
    /\ StatusOf(download_status, 2) = "completed"

=============================================================================
